---- MODULE Spec2Model ----
(***************************************************************************)
(* ECGAnalyzer (src/ecg_analysis.py): the analysis pipeline analyze_ecg    *)
(* and its stages, each a public method of the analyzer.                   *)
(*                                                                         *)
(* Number representation.  The code computes in floating point; the model  *)
(* computes in integers:                                                   *)
(*   - probabilities and scores are in thousandths of a percentage point   *)
(*     (Pct(90) is 90 %), so that the 0.4 and 0.3 weights of the AFib rule *)
(*     are exact;                                                          *)
(*   - times are in milliseconds; sample counts convert exactly at the     *)
(*     default sampling rate of 250 Hz (1 sample = 4 ms);                  *)
(*   - every comparison the code makes is made on exact integers.          *)
(* A Python dict is a function with a domain of strings, None is the value *)
(* None below, and the empty dict is EmptyDict.                            *)
(*                                                                         *)
(* ECGMonitor (src/task1.py): the playback position and the alarm of the   *)
(* monitor window, driven by its timers and buttons.                       *)
(***************************************************************************)
EXTENDS Integers, Sequences, FiniteSets, TLC

VARIABLES
    sampling_rate,   \* self.sampling_rate
    normal_ranges,   \* self.normal_ranges
    pc,              \* "idle": no call in progress; "returned": a call has returned
    call,            \* the method last called
    args,            \* its arguments
    ret,             \* its return value
    trace,           \* determine_arrhythmias: the locals after each rule
    history,         \* the caller's log of repeated analyze_ecg runs
    monitor          \* the ECGMonitor window: its fields, open dialogs and timers

vars == <<sampling_rate, normal_ranges, pc, call, args, ret, trace, history, monitor>>

\* the analyzer and its caller
analyzer_vars == <<sampling_rate, normal_ranges, pc, call, args, ret, trace, history>>

----------------------------------------------------------------------------
(* Values *)

None == [none |-> TRUE]
EmptyDict == [k \in {} |-> 0]

\* Python truthiness of a value that is None or a dict
Truthy(d) == d /= None /\ d /= EmptyDict

\* dict.get(key, default)
Get(d, key, default) == IF key \in DOMAIN d THEN d[key] ELSE default

\* a percentage in the model's unit (thousandths of a percentage point)
Pct(p) == p * 1000

\* not-a-number: every comparison with it is false; the quantities that can be
\* NaN are non-negative, so a negative stand-in never meets a real value
NaN == 0 - 1

\* float('inf'): above every value of the model
Inf == 2147483647

Max(a, b) == IF a >= b THEN a ELSE b
Min(a, b) == IF a <= b THEN a ELSE b

RECURSIVE SumSeq(_)
SumSeq(s) == IF s = <<>> THEN 0 ELSE Head(s) + SumSeq(Tail(s))

\* np.sum over a boolean array
CountTrue(s) == Cardinality({i \in DOMAIN s : s[i]})

\* arr[arr > 0]
Positive(s) == SelectSeq(s, LAMBDA x : x > 0)

----------------------------------------------------------------------------
(* ECGAnalyzer.__init__ *)

DefaultSamplingRate == 250

NormalRanges == [hr |-> <<60, 100>>]

----------------------------------------------------------------------------
(* The ECG signal *)

(***************************************************************************)
(* The samples of a signal are not modelled.  A signal is its length and   *)
(* what the numerical routines of the stages find in it, each within the   *)
(* range the code allows:                                                  *)
(*   find_peaks  the peaks of the integrated signal (line 51)              *)
(*   argmax      the offset, in the refinement window, of the maximum of   *)
(*               the signal around a coarse peak (line 65)                 *)
(*   p_idx       the offset, in the P-wave search segment, of the most     *)
(*               prominent P candidate before a beat, 0 for none (186)     *)
(*   qrs         the Q and S offsets, the area, the amplitude, the         *)
(*               polarity and the notch of a beat (lines 266-283, 341-369) *)
(*   hrv         the LF, HF and total power of the tachogram (461-469)     *)
(*   wavelet     "failed", or the noise ratio found: "quiet" or "noisy"    *)
(* find_peaks is a sequence; the per-beat findings are functions of the    *)
(* beat's number.                                                          *)
(***************************************************************************)

\* int(x * self.sampling_rate) for x = n / d
IntOfRate(n, d) == (n * sampling_rate) \div d

\* the largest r with r * r <= n, for 0 <= n < 2^31
RECURSIVE ISqrtIn(_, _, _)
ISqrtIn(n, lo, hi) ==
    IF lo = hi THEN lo
    ELSE LET mid == (lo + hi + 1) \div 2
         IN IF mid * mid <= n THEN ISqrtIn(n, mid, hi) ELSE ISqrtIn(n, lo, mid - 1)
ISqrt(n) == ISqrtIn(n, 0, 46340)

\* np.diff
Diff(s) == [i \in 1..(Len(s) - 1) |-> s[i + 1] - s[i]]

Abs(x) == IF x < 0 THEN 0 - x ELSE x

Sq(s) == [i \in DOMAIN s |-> s[i] * s[i]]

\* N * sum(x^2) - sum(x)^2: the variance of s is this over N^2
VarNum(s) == Len(s) * SumSeq(Sq(s)) - SumSeq(s) * SumSeq(s)

----------------------------------------------------------------------------
(* ECGAnalyzer.detect_r_peaks *)

\* line 56
RefineWindow == IntOfRate(25, 1000)

\* line 59: a coarse peak too close to either end of the signal is dropped
NearEdge(ecg_signal, peak) ==
    peak < RefineWindow \/ peak >= ecg_signal.len - RefineWindow

\* lines 63-65 with the window's start left out of the sum
\* (max_idx = np.argmax(...))
RefinedOffsetOnly(ecg_signal, i) == ecg_signal.argmax[i]

\* lines 63-65: the maximum of the signal in the window around coarse peak i
Refined(ecg_signal, i) ==
    LET peak == ecg_signal.find_peaks[i]
        search_start == Max(0, peak - RefineWindow)
    IN search_start + ecg_signal.argmax[i]

\* lines 55-68
DetectRPeaks(ecg_signal) ==
    LET kept == SelectSeq([i \in DOMAIN ecg_signal.find_peaks |-> i],
                          LAMBDA i : ~NearEdge(ecg_signal, ecg_signal.find_peaks[i]))
    IN [j \in DOMAIN kept |-> Refined(ecg_signal, kept[j])]

----------------------------------------------------------------------------
(* ECGAnalyzer.analyze_rr_intervals *)

\* samples to milliseconds
Ms(samples) == (samples * 1000) \div sampling_rate

\* line 99-100: the mean of 60 / rr_intervals_sec, in thousandths of a bpm;
\* an interval of 0 divides to infinity, and so does the mean
AverageHr(rr_intervals) ==
    LET hr == [i \in DOMAIN rr_intervals |->
                  IF rr_intervals[i] = 0 THEN 0
                  ELSE (60 * sampling_rate * 1000) \div rr_intervals[i]]
    IN IF \E i \in DOMAIN rr_intervals : rr_intervals[i] = 0 THEN Inf
       ELSE SumSeq(hr) \div Len(rr_intervals)

\* line 103: the standard deviation of the intervals, in ms
Sdnn(rr_intervals) == Ms(ISqrt(VarNum(rr_intervals))) \div Len(rr_intervals)

\* line 106: the root mean square of the successive differences, in ms, rounded
\* up (so that rmssd > 100 is exact); NaN when there is no difference
Rmssd(rr_intervals) ==
    LET d == Diff(rr_intervals)
        q == SumSeq(Sq([i \in DOMAIN d |-> Ms(d[i])]))
        r == ISqrt(q \div Len(d))
    IN IF Len(d) = 0 THEN NaN
       ELSE IF r * r * Len(d) >= q THEN r ELSE r + 1

\* line 109-110: the number of successive differences above 50 ms
Nn50(rr_intervals) ==
    LET d == Diff(rr_intervals)
    IN Cardinality({i \in DOMAIN d : Abs(Ms(d[i])) > 50})

\* line 110 with the count divided by the number of intervals, never 0 here
Pnn50OfIntervals(rr_intervals) ==
    (Pct(100) * Nn50(rr_intervals)) \div Len(rr_intervals)

\* line 110: in thousandths of a percent; 0 / 0 is NaN
Pnn50(rr_intervals) ==
    IF Len(rr_intervals) < 2 THEN NaN
    ELSE (Pct(100) * Nn50(rr_intervals)) \div (Len(rr_intervals) - 1)

\* lines 113-114: sdnn / mean > 0.1 or pnn50 > 10
Irregularity(rr_intervals) ==
    \/ VarNum(rr_intervals)
         > (SumSeq(rr_intervals) * SumSeq(rr_intervals)) \div 100
    \/ /\ Len(rr_intervals) >= 2
       /\ 100 * Nn50(rr_intervals) > 10 * (Len(rr_intervals) - 1)

\* line 117 with the limit included (average_hr <= 60)
BradycardiaInclusive(average_hr) == average_hr <= normal_ranges.hr[1] * 1000

\* line 117
Bradycardia(average_hr) == average_hr < normal_ranges.hr[1] * 1000

\* line 118 with every rate outside the normal range flagged
TachycardiaOutOfRange(average_hr) ==
    \/ average_hr > normal_ranges.hr[2] * 1000
    \/ average_hr < normal_ranges.hr[1] * 1000

\* line 118
Tachycardia(average_hr) == average_hr > normal_ranges.hr[2] * 1000

\* lines 89-130
AnalyzeRRIntervals(r_peaks) ==
    IF Len(r_peaks) < 2 THEN None
    ELSE LET rr_intervals == Diff(r_peaks)
             average_hr == AverageHr(rr_intervals)
         IN [rr_intervals |-> rr_intervals,
             rr_intervals_sec |-> [i \in DOMAIN rr_intervals |-> Ms(rr_intervals[i])],
             average_hr |-> average_hr,
             sdnn |-> Sdnn(rr_intervals),
             rmssd |-> Rmssd(rr_intervals),
             pnn50 |-> Pnn50(rr_intervals),
             irregularity |-> Irregularity(rr_intervals),
             bradycardia |-> Bradycardia(average_hr),
             tachycardia |-> Tachycardia(average_hr)]

----------------------------------------------------------------------------
(* ECGAnalyzer.detect_p_waves *)

\* floor(1000 * sqrt(n)) to within 0.3 %, for 0 <= n < 2^31
SqrtMilli(n) ==
    IF n <= 2147 THEN ISqrt(n * 1000000)
    ELSE IF n <= 214748 THEN 10 * ISqrt(n * 10000)
    ELSE IF n <= 21474836 THEN 100 * ISqrt(n * 100)
    ELSE 1000 * ISqrt(n)

\* line 164 with a search window of 300 ms
PSearchWindowLong == IntOfRate(3, 10)

\* line 164
PSearchWindow == IntOfRate(2, 10)

\* line 172: the search ends 50 ms before the R peak
PSearchGap == IntOfRate(5, 100)

\* lines 167-175: no search for a beat too close to the start of the signal
PSkipped(r_peak) ==
    \/ r_peak <= PSearchWindow
    \/ r_peak - PSearchGap <= r_peak - PSearchWindow

\* lines 181-184: a P candidate was found before beat i
PFound(ecg_signal, r_peaks, i) ==
    ~PSkipped(r_peaks[i]) /\ ecg_signal.p_idx[i] > 0

\* line 187
PLocation(ecg_signal, r_peaks, i) ==
    (r_peaks[i] - PSearchWindow) + ecg_signal.p_idx[i]

\* lines 158, 189: one flag for every beat
PPresent(ecg_signal, r_peaks) ==
    [i \in DOMAIN r_peaks |-> PFound(ecg_signal, r_peaks, i)]

\* lines 159, 192: one PR interval (ms) for every beat, 0 where no P wave
PrIntervals(ecg_signal, r_peaks) ==
    [i \in DOMAIN r_peaks |->
        IF PFound(ecg_signal, r_peaks, i)
        THEN Ms(r_peaks[i] - PLocation(ecg_signal, r_peaks, i))
        ELSE 0]

\* lines 160, 188 with the append moved out of `if len(p_candidates) > 0`: a
\* location for every beat that was searched
PWaveLocationsSearched(ecg_signal, r_peaks) ==
    LET searched == SelectSeq([i \in DOMAIN r_peaks |-> i],
                              LAMBDA i : ~PSkipped(r_peaks[i]))
    IN [j \in DOMAIN searched |-> PLocation(ecg_signal, r_peaks, searched[j])]

\* lines 160, 188: the locations found, in beat order
PWaveLocations(ecg_signal, r_peaks) ==
    LET found == SelectSeq([i \in DOMAIN r_peaks |-> i],
                           LAMBDA i : PFound(ecg_signal, r_peaks, i))
    IN [j \in DOMAIN found |-> PLocation(ecg_signal, r_peaks, found[j])]

\* lines 195-210 with the share of missing P waves taken as the score (no
\* division by 30 at line 205)
PWaveAfibScoreUnscaled(p_present, p_wave_locations) ==
    LET n == Len(p_present)
        k == CountTrue(p_present)
        pp_intervals == Diff(p_wave_locations)
        irregular == /\ Len(p_wave_locations) > 1
                     /\ VarNum(pp_intervals)
                          > (SumSeq(pp_intervals) * SumSeq(pp_intervals)) \div 25
        base == IF 100 * k < 70 * n THEN (Pct(100) * (n - k)) \div n ELSE 0
        penalty == IF irregular
                   THEN (20 * SqrtMilli(VarNum(pp_intervals)))
                          \div SumSeq(pp_intervals)
                   ELSE 0
    IN (Min(Pct(100), base + penalty) \div 10) * 10

\* lines 195-210: the AFib score, in thousandths of a percentage point, to the
\* hundredth
PWaveAfibScore(p_present, p_wave_locations) ==
    LET n == Len(p_present)
        k == CountTrue(p_present)
        pp_intervals == Diff(p_wave_locations)
        irregular == /\ Len(p_wave_locations) > 1
                     /\ VarNum(pp_intervals)
                          > (SumSeq(pp_intervals) * SumSeq(pp_intervals)) \div 25
        base == IF 100 * k < 70 * n THEN (Pct(100) * (n - k)) \div (30 * n) ELSE 0
        penalty == IF irregular
                   THEN (20 * SqrtMilli(VarNum(pp_intervals)))
                          \div SumSeq(pp_intervals)
                   ELSE 0
    IN (Min(Pct(100), base + penalty) \div 10) * 10

\* lines 147-217
DetectPWaves(ecg_signal, r_peaks) ==
    IF Len(r_peaks) < 2 THEN None
    ELSE LET p_present == PPresent(ecg_signal, r_peaks)
             p_wave_locations == PWaveLocations(ecg_signal, r_peaks)
         IN [p_present |-> p_present,
             pr_intervals |-> PrIntervals(ecg_signal, r_peaks),
             p_wave_locations |-> p_wave_locations,
             afib_probability |-> PWaveAfibScore(p_present, p_wave_locations)]

----------------------------------------------------------------------------
(* ECGAnalyzer.analyze_qrs_morphology *)

\* s with x inserted in ascending order
RECURSIVE Insert(_, _)
Insert(s, x) ==
    IF s = <<>> THEN <<x>>
    ELSE IF x <= Head(s) THEN <<x>> \o s
    ELSE <<Head(s)>> \o Insert(Tail(s), x)

RECURSIVE Sorted(_)
Sorted(s) == IF s = <<>> THEN <<>> ELSE Insert(Sorted(Tail(s)), Head(s))

\* twice np.median(s): NaN for an empty s
Median2(s) ==
    LET t == Sorted(s)
        n == Len(s)
    IN IF n = 0 THEN NaN
       ELSE IF n % 2 = 1 THEN 2 * t[(n + 1) \div 2]
       ELSE t[n \div 2] + t[n \div 2 + 1]

\* line 249
QrsHalfWidth == IntOfRate(6, 100)

\* line 253: the window of a beat runs off an end of the signal
QrsSkipped(ecg_signal, r_peak) ==
    r_peak - QrsHalfWidth < 0 \/ r_peak + QrsHalfWidth >= ecg_signal.len

\* lines 266-274: S point minus Q point of beat i, in samples
QrsWidth(ecg_signal, i) ==
    (QrsHalfWidth + ecg_signal.qrs[i].s_idx) - ecg_signal.qrs[i].q_idx

\* lines 241, 274 with the durations appended beat by beat, none for a skipped
\* beat, instead of written into an array of one entry per beat
QrsDurationsAppended(ecg_signal, r_peaks) ==
    LET kept == SelectSeq([i \in DOMAIN r_peaks |-> i],
                          LAMBDA i : ~QrsSkipped(ecg_signal, r_peaks[i]))
    IN [j \in DOMAIN kept |-> Ms(QrsWidth(ecg_signal, kept[j]))]

\* lines 241, 274: one duration (ms) for every beat, 0 for a skipped beat
QrsDurations(ecg_signal, r_peaks) ==
    [i \in DOMAIN r_peaks |->
        IF QrsSkipped(ecg_signal, r_peaks[i]) THEN 0
        ELSE Ms(QrsWidth(ecg_signal, i))]

\* lines 242, 277
QrsAreas(ecg_signal, r_peaks) ==
    [i \in DOMAIN r_peaks |->
        IF QrsSkipped(ecg_signal, r_peaks[i]) THEN 0 ELSE ecg_signal.qrs[i].area]

\* lines 243, 283
QrsAmplitudes(ecg_signal, r_peaks) ==
    [i \in DOMAIN r_peaks |->
        IF QrsSkipped(ecg_signal, r_peaks[i]) THEN 0
        ELSE ecg_signal.qrs[i].amplitude]

\* lines 286-287: area / amplitude (in thousandths) where the amplitude is > 0
QrsAreasNorm(qrs_areas, qrs_amplitudes) ==
    [i \in DOMAIN qrs_areas |->
        IF qrs_amplitudes[i] > 0
        THEN (qrs_areas[i] * 1000) \div qrs_amplitudes[i]
        ELSE 0]

\* line 296 with the threshold at 100 ms
WideAbove100(duration) == duration > 100

\* line 296: a duration (ms) above 120 ms
Wide(duration) == duration > 120

\* lines 296-301; the medians are doubled, a NaN median compares false
AbnormalQrs(qrs_durations, qrs_areas_norm, median2_area_norm) ==
    [i \in DOMAIN qrs_durations |->
        \/ Wide(qrs_durations[i])
        \/ /\ median2_area_norm /= NaN
           /\ \/ 4 * qrs_areas_norm[i] > 3 * median2_area_norm
              \/ 4 * qrs_areas_norm[i] < median2_area_norm]

\* lines 307-315: beat i is premature, followed by a pause, wide and different
IsPvc(r_peaks, i, qrs_durations, qrs_areas_norm, median2_duration, median2_area_norm) ==
    /\ i > 1 /\ i < Len(r_peaks)
    /\ median2_duration /= NaN /\ median2_area_norm /= NaN
    /\ 20 * Ms(r_peaks[i] - r_peaks[i - 1]) < 8 * median2_duration
    /\ 20 * Ms(r_peaks[i + 1] - r_peaks[i]) > 12 * median2_duration
    /\ Wide(qrs_durations[i])
    /\ \/ 20 * qrs_areas_norm[i] < 7 * median2_area_norm
       \/ 20 * qrs_areas_norm[i] > 13 * median2_area_norm

\* line 316: what is recorded for a PVC at beat i
PvcEntry(r_peaks, i) == r_peaks[i]

\* lines 246, 294-316
PvcLocations(r_peaks, qrs_durations, qrs_areas_norm, median2_duration, median2_area_norm) ==
    LET pvc == SelectSeq([i \in DOMAIN r_peaks |-> i],
                         LAMBDA i : IsPvc(r_peaks, i, qrs_durations, qrs_areas_norm,
                                          median2_duration, median2_area_norm))
    IN [j \in DOMAIN pvc |-> PvcEntry(r_peaks, pvc[j])]

\* lines 326-327: more than 70 % of the beats are wide
MostlyWide(qrs_durations) ==
    10 * Cardinality({i \in DOMAIN qrs_durations : Wide(qrs_durations[i])})
        > 7 * Len(qrs_durations)

\* lines 330-344
NegDeflection(ecg_signal, r_peaks) ==
    [i \in DOMAIN r_peaks |->
        ~QrsSkipped(ecg_signal, r_peaks[i]) /\ ecg_signal.qrs[i].neg]

\* lines 347-352
LbbbProbability(neg_deflection) ==
    LET lbbb_count == CountTrue(neg_deflection)
    IN IF 10 * lbbb_count > 7 * Len(neg_deflection) THEN Pct(80)
       ELSE IF 10 * lbbb_count > 5 * Len(neg_deflection) THEN Pct(50)
       ELSE 0

\* lines 356-374
RbbbProbability(ecg_signal, r_peaks, neg_deflection) ==
    LET notched_r ==
            Cardinality({i \in DOMAIN r_peaks :
                /\ ~neg_deflection[i]
                /\ ~QrsSkipped(ecg_signal, r_peaks[i])
                /\ QrsHalfWidth > 10
                /\ ecg_signal.qrs[i].notch})
    IN IF 10 * notched_r > 3 * Len(r_peaks) THEN Pct(70)
       ELSE IF 10 * notched_r > Len(r_peaks) THEN Pct(40)
       ELSE 0

\* lines 237-385
AnalyzeQrsMorphology(ecg_signal, r_peaks) ==
    IF Len(r_peaks) < 2 THEN None
    ELSE LET qrs_durations == QrsDurations(ecg_signal, r_peaks)
             qrs_areas == QrsAreas(ecg_signal, r_peaks)
             qrs_amplitudes == QrsAmplitudes(ecg_signal, r_peaks)
             qrs_areas_norm == QrsAreasNorm(qrs_areas, qrs_amplitudes)
             median2_duration == Median2(Positive(qrs_durations))
             median2_area_norm == Median2(Positive(qrs_areas_norm))
             wide_qrs_count ==
                 Cardinality({i \in DOMAIN qrs_durations : Wide(qrs_durations[i])})
             neg_deflection == NegDeflection(ecg_signal, r_peaks)
         IN [qrs_durations |-> qrs_durations,
             qrs_areas |-> qrs_areas,
             qrs_amplitudes |-> qrs_amplitudes,
             abnormal_qrs |->
                 AbnormalQrs(qrs_durations, qrs_areas_norm, median2_area_norm),
             pvc_locations |->
                 PvcLocations(r_peaks, qrs_durations, qrs_areas_norm,
                              median2_duration, median2_area_norm),
             wide_qrs_percentage |-> (Pct(100) * wide_qrs_count) \div Len(r_peaks),
             lbbb_probability |->
                 IF MostlyWide(qrs_durations)
                 THEN LbbbProbability(neg_deflection) ELSE 0,
             rbbb_probability |->
                 IF MostlyWide(qrs_durations)
                 THEN RbbbProbability(ecg_signal, r_peaks, neg_deflection) ELSE 0]

----------------------------------------------------------------------------
(* ECGAnalyzer.frequency_domain_analysis *)

\* line 406 with only the R-peak count tested
TooShortForSpectrumPeaksOnly(ecg_signal, r_peaks) == Len(r_peaks) < 10

\* line 406 with a limit of 500 samples
TooShortForSpectrumLowLimit(ecg_signal, r_peaks) ==
    ecg_signal.len < 500 \/ Len(r_peaks) < 10

\* line 406
TooShortForSpectrum(ecg_signal, r_peaks) ==
    ecg_signal.len < 1000 \/ Len(r_peaks) < 10

\* lines 410-421: the spectrum, by the lengths of its arrays
Spectrum(ecg_signal) ==
    [ecg_fft |-> [len |-> ecg_signal.len],
     ecg_freqs |-> [len |-> (ecg_signal.len - 1) \div 2],
     ecg_psd |-> [len |-> (ecg_signal.len - 1) \div 2]]

\* lines 424-434
SpectrumOnly(ecg_signal) ==
    LET sp == Spectrum(ecg_signal)
    IN [ecg_fft |-> sp.ecg_fft, ecg_freqs |-> sp.ecg_freqs, ecg_psd |-> sp.ecg_psd,
        hrv_lf |-> None, hrv_hf |-> None, lf_hf_ratio |-> None,
        wavelet_coeffs |-> None, afib_probability |-> None]

\* line 465, in thousandths
LfHfRatio(hrv_lf, hrv_hf) ==
    IF hrv_hf > 0 THEN (hrv_lf * 1000) \div hrv_hf ELSE Inf

\* lines 469-502 with the +20 added before the decomposition is attempted, so
\* that a failure no longer withholds it
FreqAfibScoreAddedFirst(hrv, wavelet) ==
    LET low_ratio == hrv.hf > 0 /\ 2 * hrv.lf < hrv.hf
        high_hf == hrv.total > 0 /\ 2 * hrv.hf > hrv.total
    IN Min(Pct(100),
           (IF low_ratio THEN Pct(30) ELSE 0) + (IF high_hf THEN Pct(30) ELSE 0)
           + (IF wavelet /= "quiet" THEN Pct(20) ELSE 0))

\* lines 469-479, 494-495, 502: +30 for LF/HF < 0.5, +30 for HF / total > 0.5,
\* +20 for a noise ratio above 0.4 when the decomposition succeeded
FreqAfibScore(hrv, wavelet) ==
    LET low_ratio == hrv.hf > 0 /\ 2 * hrv.lf < hrv.hf
        high_hf == hrv.total > 0 /\ 2 * hrv.hf > hrv.total
    IN Min(Pct(100),
           (IF low_ratio THEN Pct(30) ELSE 0) + (IF high_hf THEN Pct(30) ELSE 0)
           + (IF wavelet = "noisy" THEN Pct(20) ELSE 0))

\* lines 484-499: the five coefficient arrays, None when wavedec raised
WaveletCoeffs(wavelet) == IF wavelet = "failed" THEN None ELSE [levels |-> 5]

\* lines 406-513
FrequencyDomainAnalysis(ecg_signal, r_peaks) ==
    IF TooShortForSpectrum(ecg_signal, r_peaks) THEN None
    ELSE IF Len(r_peaks) < 10 THEN SpectrumOnly(ecg_signal)
    ELSE LET sp == Spectrum(ecg_signal)
             hrv == ecg_signal.hrv
         IN [ecg_fft |-> sp.ecg_fft, ecg_freqs |-> sp.ecg_freqs,
             ecg_psd |-> sp.ecg_psd,
             hrv_lf |-> hrv.lf,
             hrv_hf |-> hrv.hf,
             lf_hf_ratio |-> LfHfRatio(hrv.lf, hrv.hf),
             wavelet_coeffs |-> WaveletCoeffs(ecg_signal.wavelet),
             afib_probability |-> FreqAfibScore(hrv, ecg_signal.wavelet)]

----------------------------------------------------------------------------
(* ECGAnalyzer.determine_arrhythmias *)

ArrhythmiaNames == {"sinus_rhythm", "bradycardia", "tachycardia", "afib",
                    "pvc", "heart_block", "lbbb", "rbbb"}

\* the initial verdict map
InitialArrhythmias ==
    [k \in ArrhythmiaNames |->
        IF k = "sinus_rhythm"
        THEN [probability |-> Pct(100), confidence |-> "high"]
        ELSE [probability |-> 0, confidence |-> "low"]]

\* the locals of determine_arrhythmias: the verdict map, the evidence counters,
\* and the two AFib accumulators
InitialLocals ==
    [arrhythmias |-> InitialArrhythmias,
     evidence |-> [k \in ArrhythmiaNames |-> 0],
     afib_probability |-> 0,
     afib_evidence |-> 0]

SetVerdict(st, k, p, c) ==
    [st EXCEPT !.arrhythmias[k] = [probability |-> p, confidence |-> c]]

SubSinus(st, d) ==
    [st EXCEPT !.arrhythmias["sinus_rhythm"].probability = @ - d]

AddEvidence(st, k) == [st EXCEPT !.evidence[k] = @ + 1]

\* lines 583-586: the four records, {} for a missing key
RRRecord(analysis_results) == Get(analysis_results, "rr_analysis", EmptyDict)
PWaveRecord(analysis_results) == Get(analysis_results, "p_wave_analysis", EmptyDict)
QrsRecord(analysis_results) == Get(analysis_results, "qrs_analysis", EmptyDict)
FreqRecord(analysis_results) == Get(analysis_results, "freq_analysis", EmptyDict)

\* lines 594-599
BradycardiaRule(st, analysis_results) ==
    LET rr == RRRecord(analysis_results)
    IN IF Get(rr, "bradycardia", FALSE)
       THEN AddEvidence(SubSinus(SetVerdict(st, "bradycardia", Pct(90), "high"),
                                 Pct(30)), "bradycardia")
       ELSE st

\* lines 601-606 without the evidence counter (line 606 left out)
TachycardiaRuleUncounted(st, analysis_results) ==
    LET rr == RRRecord(analysis_results)
    IN IF Get(rr, "tachycardia", FALSE)
       THEN SubSinus(SetVerdict(st, "tachycardia", Pct(90), "high"), Pct(30))
       ELSE st

\* lines 601-606
TachycardiaRule(st, analysis_results) ==
    LET rr == RRRecord(analysis_results)
    IN IF Get(rr, "tachycardia", FALSE)
       THEN AddEvidence(SubSinus(SetVerdict(st, "tachycardia", Pct(90), "high"),
                                 Pct(30)), "tachycardia")
       ELSE st

\* line 613: the P-wave evidence source
PWaveAfibSignal(analysis_results) ==
    LET p_wave == PWaveRecord(analysis_results)
    IN Truthy(p_wave) /\ Get(p_wave, "afib_probability", 0) > Pct(50)

\* line 618: the RR evidence source (rmssd in ms; a NaN rmssd compares false)
RRAfibSignal(analysis_results) ==
    LET rr == RRRecord(analysis_results)
    IN Get(rr, "irregularity", FALSE) /\ Get(rr, "rmssd", 0) > 100

\* line 623: the frequency-domain evidence source
FreqAfibSignal(analysis_results) ==
    LET freq == FreqRecord(analysis_results)
    IN Truthy(freq) /\ Get(freq, "afib_probability", 0) > Pct(50)

\* lines 609-625: the weighted sum and the number of sources that fired
AfibAccumulate(st, analysis_results) ==
    LET p == IF PWaveAfibSignal(analysis_results)
             THEN (PWaveRecord(analysis_results)["afib_probability"] * 4) \div 10
             ELSE 0
        r == IF RRAfibSignal(analysis_results) THEN Pct(60) ELSE 0
        f == IF FreqAfibSignal(analysis_results)
             THEN (FreqRecord(analysis_results)["afib_probability"] * 3) \div 10
             ELSE 0
        n == (IF PWaveAfibSignal(analysis_results) THEN 1 ELSE 0)
             + (IF RRAfibSignal(analysis_results) THEN 1 ELSE 0)
             + (IF FreqAfibSignal(analysis_results) THEN 1 ELSE 0)
    IN [st EXCEPT !.afib_probability = p + r + f, !.afib_evidence = n]

\* line 630 with the comparison off by one ('medium' if afib_evidence == 1)
AfibConfidenceOffByOne(afib_evidence) ==
    IF afib_evidence = 1 THEN "medium" ELSE "high"

\* line 630
AfibConfidence(afib_evidence) == IF afib_evidence = 2 THEN "medium" ELSE "high"

\* line 628 with a single source sufficing (afib_evidence >= 1)
AfibDiagnosedOnOneSource(afib_evidence) == afib_evidence >= 1

\* line 628
AfibDiagnosed(afib_evidence) == afib_evidence >= 2

\* lines 627-634
AfibRule(st0, analysis_results) ==
    LET st == AfibAccumulate(st0, analysis_results)
        prob == Min(Pct(95), st.afib_probability)
        sinus == st.arrhythmias["sinus_rhythm"].probability
    IN IF AfibDiagnosed(st.afib_evidence)
       THEN [st EXCEPT
               !.arrhythmias["afib"] =
                   [probability |-> prob,
                    confidence |-> AfibConfidence(st.afib_evidence)],
               !.arrhythmias["sinus_rhythm"].probability = Max(0, sinus - prob),
               !.evidence["afib"] = st.afib_evidence]
       ELSE st

\* line 657
PvcEvidence(pvc_count) == pvc_count

\* lines 636-657 with the limits included (pvc_percentage >= 10, >= 5)
PvcRuleInclusive(st, analysis_results) ==
    LET qrs == QrsRecord(analysis_results)
        pvc_count == Len(Get(qrs, "pvc_locations", <<>>))
        r_peaks_count == Len(Get(analysis_results, "r_peaks", <<>>))
        withVerdict ==
            IF pvc_count * 100 >= 10 * r_peaks_count
            THEN SubSinus(SetVerdict(st, "pvc", Pct(90), "high"), Pct(50))
            ELSE IF pvc_count * 100 >= 5 * r_peaks_count
            THEN SubSinus(SetVerdict(st, "pvc", Pct(70), "medium"), Pct(30))
            ELSE SubSinus(SetVerdict(st, "pvc", Pct(50), "low"), Pct(10))
    IN IF Truthy(qrs) /\ pvc_count > 0 /\ r_peaks_count > 0
       THEN [withVerdict EXCEPT !.evidence["pvc"] = PvcEvidence(pvc_count)]
       ELSE st

\* lines 636-657 (pvc_percentage = pvc_count / r_peaks_count * 100)
PvcRule(st, analysis_results) ==
    LET qrs == QrsRecord(analysis_results)
        pvc_count == Len(Get(qrs, "pvc_locations", <<>>))
        r_peaks_count == Len(Get(analysis_results, "r_peaks", <<>>))
        withVerdict ==
            IF pvc_count * 100 > 10 * r_peaks_count
            THEN SubSinus(SetVerdict(st, "pvc", Pct(90), "high"), Pct(50))
            ELSE IF pvc_count * 100 > 5 * r_peaks_count
            THEN SubSinus(SetVerdict(st, "pvc", Pct(70), "medium"), Pct(30))
            ELSE SubSinus(SetVerdict(st, "pvc", Pct(50), "low"), Pct(10))
    IN IF Truthy(qrs) /\ pvc_count > 0 /\ r_peaks_count > 0
       THEN [withVerdict EXCEPT !.evidence["pvc"] = PvcEvidence(pvc_count)]
       ELSE st

\* lines 664-671: first-degree block, mean of the positive PR intervals > 200 ms
FirstDegreeRule(st, pr_intervals) ==
    IF SumSeq(pr_intervals) > 200 * Len(pr_intervals)
    THEN AddEvidence(SubSinus(SetVerdict(st, "heart_block", Pct(80), "high"),
                              Pct(30)), "heart_block")
    ELSE st

\* lines 673-681 with the probability assigned 70 instead of raised to 70
SecondDegreeRuleAssigns(st, analysis_results) ==
    LET p_present == Get(PWaveRecord(analysis_results), "p_present", <<>>)
        missing_qrs == CountTrue(p_present)
                       - Len(Get(analysis_results, "r_peaks", <<>>))
    IN IF missing_qrs > 0
       THEN AddEvidence(
              SubSinus(SetVerdict(st, "heart_block", Pct(70), "medium"), Pct(40)),
              "heart_block")
       ELSE st

\* lines 673-681: second-degree block, more P waves than R peaks
SecondDegreeRule(st, analysis_results) ==
    LET p_present == Get(PWaveRecord(analysis_results), "p_present", <<>>)
        missing_qrs == CountTrue(p_present)
                       - Len(Get(analysis_results, "r_peaks", <<>>))
    IN IF missing_qrs > 0
       THEN AddEvidence(
              SubSinus(
                SetVerdict(st, "heart_block",
                           Max(st.arrhythmias["heart_block"].probability, Pct(70)),
                           "medium"),
                Pct(40)),
              "heart_block")
       ELSE st

\* lines 659-681 with the two tests in the other order: second-degree first
HeartBlockRuleSecondFirst(st, analysis_results) ==
    LET p_wave == PWaveRecord(analysis_results)
        pr_intervals == Positive(Get(p_wave, "pr_intervals", <<>>))
    IN IF Truthy(p_wave) /\ Len(Get(p_wave, "pr_intervals", <<>>)) > 0
          /\ Len(pr_intervals) > 0
       THEN FirstDegreeRule(SecondDegreeRule(st, analysis_results), pr_intervals)
       ELSE st

\* lines 659-681
HeartBlockRule(st, analysis_results) ==
    LET p_wave == PWaveRecord(analysis_results)
        pr_intervals == Positive(Get(p_wave, "pr_intervals", <<>>))
    IN IF Truthy(p_wave) /\ Len(Get(p_wave, "pr_intervals", <<>>)) > 0
          /\ Len(pr_intervals) > 0
       THEN SecondDegreeRule(FirstDegreeRule(st, pr_intervals), analysis_results)
       ELSE st

\* lines 683-698
BundleBranchRule(st, analysis_results) ==
    LET qrs == QrsRecord(analysis_results)
        lbbb_prob == Get(qrs, "lbbb_probability", 0)
        rbbb_prob == Get(qrs, "rbbb_probability", 0)
        st1 == IF lbbb_prob > Pct(60)
               THEN AddEvidence(SubSinus(SetVerdict(st, "lbbb", lbbb_prob, "medium"),
                                         Pct(20)), "lbbb")
               ELSE st
        st2 == IF rbbb_prob > Pct(60)
               THEN AddEvidence(SubSinus(SetVerdict(st1, "rbbb", rbbb_prob, "medium"),
                                         Pct(20)), "rbbb")
               ELSE st1
    IN IF Truthy(qrs) THEN st2 ELSE st

\* line 702 without the lower limit (min(100, p))
ClampUpperOnly(p) == Min(Pct(100), p)

\* line 702
Clamp(p) == Max(0, Min(Pct(100), p))

\* lines 700-702
ClampRule(st) ==
    [st EXCEPT !.arrhythmias =
        [k \in ArrhythmiaNames |->
            [probability |-> Clamp(st.arrhythmias[k].probability),
             confidence |-> st.arrhythmias[k].confidence]]]

\* line 706 without the floor
SinusFloorMissing(p) == p

\* line 706
SinusFloor(p) == Max(Pct(10), p)

\* lines 704-706
SinusFloorRule(st) ==
    IF \E k \in ArrhythmiaNames \ {"sinus_rhythm"} :
           st.arrhythmias[k].probability > Pct(70)
    THEN [st EXCEPT !.arrhythmias["sinus_rhythm"].probability = SinusFloor(@)]
    ELSE st

\* the locals after each rule, in the order the code applies them
\* (1: initial, 2: bradycardia, 3: tachycardia, 4: AFib, 5: PVC, 6: heart block,
\*  7: bundle branch blocks, 8: clamp, 9: sinus floor)
RuleTrace(analysis_results) ==
    LET s1 == InitialLocals
        s2 == BradycardiaRule(s1, analysis_results)
        s3 == TachycardiaRule(s2, analysis_results)
        s4 == AfibRule(s3, analysis_results)
        s5 == PvcRule(s4, analysis_results)
        s6 == HeartBlockRule(s5, analysis_results)
        s7 == BundleBranchRule(s6, analysis_results)
        s8 == ClampRule(s7)
        s9 == SinusFloorRule(s8)
    IN <<s1, s2, s3, s4, s5, s6, s7, s8, s9>>

\* lines 708-711: the verdict map with the evidence counters added to it
WithEvidenceCounts(st) ==
    [k \in ArrhythmiaNames \cup {"evidence_counts"} |->
        IF k = "evidence_counts" THEN st.evidence ELSE st.arrhythmias[k]]

\* lines 583-589: a missing or empty RR record returns the initial verdicts
HasRR(analysis_results) == Truthy(RRRecord(analysis_results))

\* the whole of determine_arrhythmias
DetermineArrhythmias(analysis_results) ==
    IF ~HasRR(analysis_results)
    THEN InitialArrhythmias
    ELSE WithEvidenceCounts(RuleTrace(analysis_results)[9])

\* the locals after each rule of a call (the initial locals alone when the call
\* returns at line 589)
DetermineTrace(analysis_results) ==
    IF ~HasRR(analysis_results)
    THEN <<InitialLocals>>
    ELSE RuleTrace(analysis_results)

----------------------------------------------------------------------------
(* ECGAnalyzer.analyze_ecg *)

\* line 528 with the limit off by one (len(r_peaks) < 3)
InsufficientPeaksOffByOne(r_peaks) == Len(r_peaks) < 3

\* line 528
InsufficientPeaks(r_peaks) == Len(r_peaks) < 2

\* line 530
InsufficientMessage == "Insufficient R peaks detected for analysis"

\* lines 534-553: the four stages and the R peaks
StageResults(ecg_signal, r_peaks) ==
    [r_peaks |-> r_peaks,
     rr_analysis |-> AnalyzeRRIntervals(r_peaks),
     p_wave_analysis |-> DetectPWaves(ecg_signal, r_peaks),
     qrs_analysis |-> AnalyzeQrsMorphology(ecg_signal, r_peaks),
     freq_analysis |-> FrequencyDomainAnalysis(ecg_signal, r_peaks)]

\* lines 556-557: result['arrhythmias'] = arrhythmias
WithArrhythmias(result, arrhythmias) ==
    [k \in DOMAIN result \cup {"arrhythmias"} |->
        IF k = "arrhythmias" THEN arrhythmias ELSE result[k]]

\* lines 525-559
AnalyzeEcg(ecg_signal) ==
    LET r_peaks == DetectRPeaks(ecg_signal)
        result == StageResults(ecg_signal, r_peaks)
    IN IF InsufficientPeaks(r_peaks)
       THEN [error |-> InsufficientMessage, r_peaks |-> r_peaks]
       ELSE WithArrhythmias(result, DetermineArrhythmias(result))

----------------------------------------------------------------------------
(* Arguments of a direct call of determine_arrhythmias *)

\* the most PVC beats a QRS record given to determine_arrhythmias lists
MaxPvc == 3

\* n copies of x
Repeat(x, n) == [i \in 1..n |-> x]

\* the R-peak lists given: only their length is read (lines 639, 675)
ArgRPeakCounts == {0, 10, 20}
ArgRPeaks(n) == [i \in 1..n |-> 250 * i]

\* RR records: the four fields the classifier reads
ArgRRRecords ==
    {None, EmptyDict} \cup
    { [bradycardia |-> b, tachycardia |-> t,
       irregularity |-> ir[1], rmssd |-> ir[2]] :
        b \in BOOLEAN, t \in BOOLEAN,
        ir \in {<<TRUE, 101>>, <<TRUE, 100>>, <<FALSE, 101>>} }
    \cup
    { [bradycardia |-> b, tachycardia |-> ~b, irregularity |-> FALSE,
       rmssd |-> NaN] : b \in BOOLEAN }

\* P-wave records: 12 beats, the first k with a P wave at PR interval pr (ms)
ArgPWaveArrays ==
    { [p_present |-> [i \in 1..12 |-> i <= kp[1]],
       pr_intervals |-> [i \in 1..12 |-> IF i <= kp[1] THEN kp[2] ELSE 0]] :
        kp \in {<<0, 0>>, <<6, 240>>, <<12, 160>>, <<12, 240>>} }

ArgPWaveRecords ==
    {None} \cup
    { [p_present |-> a.p_present, pr_intervals |-> a.pr_intervals,
       afib_probability |-> s] :
        a \in ArgPWaveArrays, s \in {Pct(50), Pct(75), Pct(100)} }

\* QRS records: the PVC list and the two bundle-branch-block probabilities
ArgQrsRecords ==
    {None} \cup
    { [pvc_locations |-> Repeat(250, n),
       lbbb_probability |-> bbb[1], rbbb_probability |-> bbb[2]] :
        n \in 0..MaxPvc,
        bbb \in {<<0, 0>>, <<Pct(80), 0>>, <<Pct(50), Pct(70)>>,
                 <<Pct(80), Pct(70)>>} }

\* frequency records: the AFib score
ArgFreqRecords ==
    {None} \cup { [afib_probability |-> s] : s \in {Pct(50), Pct(80)} }

ArgAnalysisResults ==
    { [r_peaks |-> ArgRPeaks(n), rr_analysis |-> rr, p_wave_analysis |-> p_wave,
       qrs_analysis |-> qrs, freq_analysis |-> freq] :
        n \in ArgRPeakCounts, rr \in ArgRRRecords, p_wave \in ArgPWaveRecords,
        qrs \in ArgQrsRecords, freq \in ArgFreqRecords }

----------------------------------------------------------------------------
(* Signals given to analyze_ecg and frequency_domain_analysis *)

\* the most peaks find_peaks returns in a signal of the model
MaxPeaks == 11

SignalLengths == {500, 999, 1000, 3000}

\* k coarse peaks from `first` on, s[1] and s[2] samples apart in turn; the
\* spacings respect the minimum distance given to find_peaks (line 52)
CoarsePeaks(first, s, k) ==
    [i \in 1..k |->
        first + ((i - 1) \div 2) * (s[1] + s[2]) + (IF i % 2 = 0 THEN s[1] ELSE 0)]

PeakSpacings ==
    {<<50, 50>>, <<250, 250>>, <<300, 300>>, <<50, 300>>}

FirstPeaks == {3, 10, 240}

\* the peaks find_peaks can return in a signal of n samples: inside the
\* integrated signal (n - 1 samples), never its first or last sample
CoarsePeakLists(n) ==
    { peaks \in { CoarsePeaks(first, s, k) :
                    first \in FirstPeaks, s \in PeakSpacings, k \in 0..MaxPeaks } :
        peaks = <<>> \/ peaks[Len(peaks)] <= n - 3 }

\* the maximum around every coarse peak at the same place of its window (12
\* samples): the window's first sample, or its last
ArgmaxChoices == { [i \in 1..(MaxPeaks + 1) |-> o] : o \in {0, 11} }

\* P candidates: none; before every beat, as early or as late in the segment
\* as find_peaks can report one (segment of 38 samples, ends excluded); before
\* every other beat
PIdxChoices ==
    { [i \in 1..(MaxPeaks + 1) |-> 0],
      [i \in 1..(MaxPeaks + 1) |-> 1],
      [i \in 1..(MaxPeaks + 1) |-> 36],
      [i \in 1..(MaxPeaks + 1) |-> IF i % 2 = 1 THEN 20 ELSE 0] }

\* the widest QRS the two 15-sample halves allow, upright
QrsBroad == [q_idx |-> 0, s_idx |-> 14, area |-> 12000, amplitude |-> 1000,
             neg |-> FALSE, notch |-> FALSE]

\* the narrowest, inverted and notched, of a smaller area
QrsNarrow == [q_idx |-> 14, s_idx |-> 0, area |-> 5000, amplitude |-> 1000,
              neg |-> TRUE, notch |-> TRUE]

QrsChoices ==
    { [i \in 1..(MaxPeaks + 1) |-> QrsBroad],
      [i \in 1..(MaxPeaks + 1) |-> QrsNarrow],
      [i \in 1..(MaxPeaks + 1) |-> IF i = 2 THEN QrsNarrow ELSE QrsBroad] }

\* tachogram powers: LF dominant, HF dominant, HF above twice LF but under
\* half the total, and no HF power at all
HrvChoices ==
    { [lf |-> 3, hf |-> 1, total |-> 5], [lf |-> 1, hf |-> 3, total |-> 4],
      [lf |-> 1, hf |-> 3, total |-> 8], [lf |-> 1, hf |-> 0, total |-> 2] }

WaveletChoices == {"failed", "quiet", "noisy"}

\* a signal of n samples with the given coarse peaks: the tachogram and the
\* wavelets vary only where the code can come to compute them
SignalsWith(n, peaks) ==
    { [len |-> n, find_peaks |-> peaks, argmax |-> am, p_idx |-> pi, qrs |-> q,
       hrv |-> h, wavelet |-> w] :
        am \in ArgmaxChoices, pi \in PIdxChoices, q \in QrsChoices,
        h \in IF n >= 1000 /\ Len(peaks) >= 10
              THEN HrvChoices ELSE {[lf |-> 3, hf |-> 1, total |-> 5]},
        w \in IF n >= 1000 /\ Len(peaks) >= 10 THEN WaveletChoices ELSE {"quiet"} }

\* the signals given to analyze_ecg
Signals ==
    UNION { UNION { SignalsWith(n, peaks) : peaks \in CoarsePeakLists(n) } :
              n \in SignalLengths }

\* the arguments of a direct call of frequency_domain_analysis: a signal, of
\* which the stage reads the length, the tachogram and the wavelets, and a list
\* of R peaks 40 samples apart
FreqArgPeakCounts == {0, 2, 9, 10, 12}

FreqArgs ==
    { [ecg_signal |-> [len |-> n, hrv |-> h, wavelet |-> w],
       r_peaks |-> [i \in 1..k |-> 40 * i]] :
        n \in SignalLengths, k \in FreqArgPeakCounts, h \in HrvChoices,
        w \in WaveletChoices }

\* the signals given to a direct call of detect_r_peaks: the stage reads the
\* length, the coarse peaks and the maxima around them; here the maximum may
\* also sit at opposite ends of the windows of neighbouring peaks
DetectArgmaxChoices ==
    ArgmaxChoices \cup
    { [i \in 1..(MaxPeaks + 1) |-> IF i % 2 = 1 THEN 11 ELSE 0],
      [i \in 1..(MaxPeaks + 1) |-> IF i % 2 = 1 THEN 0 ELSE 11] }

DetectArgs ==
    UNION { { [len |-> n, find_peaks |-> peaks, argmax |-> am] :
                peaks \in CoarsePeakLists(n), am \in DetectArgmaxChoices } :
            n \in SignalLengths }

\* the R peaks given to a direct call of analyze_rr_intervals: k peaks a
\* constant number of samples apart, or two spacings in turn
UniformSpacings == {125, 149, 150, 151, 249, 250, 251, 300}

MixedSpacings == {<<50, 300>>, <<125, 300>>, <<150, 250>>, <<100, 1000>>}

RRArgPeakCounts == {0, 1, 2, 3, 6}

RRArgs ==
    { CoarsePeaks(100, <<sp, sp>>, k) : sp \in UniformSpacings, k \in RRArgPeakCounts }
    \cup { CoarsePeaks(100, sp, k) : sp \in MixedSpacings, k \in RRArgPeakCounts }

----------------------------------------------------------------------------
(* ECGMonitor: fields and handlers (src/task1.py) *)

\* line 185
MonitorSamplingRate == 250

\* line 186
DisplaySeconds == 6

\* line 800: the seconds of sample data generated
SampleSeconds == 60

\* lines 476, 1167, 1219: int(self.display_seconds * self.sampling_rate)
DisplayPoints == DisplaySeconds * MonitorSamplingRate

\* line 1210: int(0.2 * self.sampling_rate)
PlotAdvance == (2 * MonitorSamplingRate) \div 10

\* line 801: the number of samples of the generated waveforms
SampleLength == SampleSeconds * MonitorSamplingRate

\* line 957: the heart rate the generated vital signs start with
SampleHr == 75

\* lines 967-1012: the heart-rate range of each section of the simulation
VitalVariationsHr ==
    [normal |-> <<70, 80>>, tachy |-> <<115, 130>>, normal2 |-> <<70, 80>>,
     brady |-> <<40, 55>>, normal3 |-> <<70, 80>>]

\* lines 1076-1087: the section the playback position is in
VariationKey(current_index) ==
    IF current_index < 20 * MonitorSamplingRate THEN "normal"
    ELSE IF current_index < 30 * MonitorSamplingRate THEN "tachy"
    ELSE IF current_index < 40 * MonitorSamplingRate THEN "normal2"
    ELSE IF current_index < 50 * MonitorSamplingRate THEN "brady"
    ELSE "normal3"

\* the outcomes of np.random.uniform kept: the low end of the range and its
\* middle
UniformDraws == {"low", "mid"}

\* the random draws of one pass through update_monitor, and whether a canvas
\* whose line has y data of another length than its x data raises on draw()
Draws == [hr : UniformDraws, afib : BOOLEAN, raises : BOOLEAN]

\* lines 1090-1094: vital_signs["hr"] drawn in the range of the section
UpdateVitalSigns(m, u) ==
    LET range == VitalVariationsHr[VariationKey(m.current_index)]
    IN [m EXCEPT !.hr = IF u = "low" THEN range[1]
                        ELSE (range[1] + range[2]) \div 2]

\* the window after __init__ (lines 181-188, 578, 607, 950-957, 1019, 1041):
\* sample data loaded, monitoring started, no alarm.  ecg_data and pleth_data
\* are the lengths of the arrays; dialogs are the handlers suspended in an
\* open alert box, restore_timers the single-shot timers still to fire
InitialMonitor ==
    [ecg_data |-> SampleLength, pleth_data |-> SampleLength,
     current_index |-> 0, is_monitoring |-> TRUE,
     alarm_active |-> FALSE, alarm_label |-> "ECG: Normal", mute_btn |-> FALSE,
     hr |-> SampleHr, dialogs |-> <<>>, restore_timers |-> 0]

\* lines 1298-1303 without the test of line 1299
TriggerAlarmUnguarded(m, message) ==
    [m EXCEPT !.alarm_active = TRUE,
              !.alarm_label = "ALERT: " \o message,
              !.mute_btn = TRUE]

\* lines 1298-1303: the fields trigger_alarm writes
TriggerAlarm(m, message) ==
    IF ~m.alarm_active
    THEN [m EXCEPT !.alarm_active = TRUE,
                   !.alarm_label = "ALERT: " \o message,
                   !.mute_btn = TRUE]
    ELSE m

\* lines 1299, 1311-1336: trigger_alarm shows the alert box, and waits in
\* msg.exec_() until it is closed
ShowsDialog(m) == ~m.alarm_active

\* lines 1210-1214: advance by 0.2 s, back to 0 at the end of the data
AdvanceIndex(m) ==
    LET next_index == m.current_index + PlotAdvance
    IN [m EXCEPT !.current_index =
            IF next_index >= m.ecg_data - DisplayPoints THEN 0 ELSE next_index]

\* lines 1256, 1266, 1281-1285: the test of each stage of detect_arrhythmias
StageFires(m, stage, heart_rate, afib) ==
    CASE stage = "bradycardia" -> heart_rate < 60
      [] stage = "tachycardia" -> heart_rate > 100
      [] stage = "afib" ->
            /\ m.current_index > 5 * MonitorSamplingRate
            /\ 20 * MonitorSamplingRate < m.current_index
            /\ m.current_index < 30 * MonitorSamplingRate
            /\ heart_rate > 100
            /\ afib

\* lines 1259, 1269, 1287: the message of each stage
StageMessage(stage) ==
    CASE stage = "bradycardia" -> "BRADYCARDIA"
      [] stage = "tachycardia" -> "TACHYCARDIA"
      [] stage = "afib" -> "ATRIAL FIB"

\* the order of the stages in detect_arrhythmias; after the last, update_plot
\* advances the index
StageAfter(stage) ==
    CASE stage = "bradycardia" -> "tachycardia"
      [] stage = "tachycardia" -> "afib"
      [] stage = "afib" -> "advance"

\* update_monitor from a stage of detect_arrhythmias on (lines 1253-1291,
\* then 1210-1214 of update_plot, then 1066 update_vital_signs).  A
\* trigger_alarm that shows the alert box suspends the handler there: what is
\* left of it is kept in dialogs and runs when the box is closed.
RECURSIVE DetectArrhythmiasFrom(_, _, _, _)
DetectArrhythmiasFrom(m, stage, heart_rate, draw) ==
    IF stage = "advance"
    THEN UpdateVitalSigns(AdvanceIndex(m), draw.hr)
    ELSE IF StageFires(m, stage, heart_rate, draw.afib)
    THEN LET raised == TriggerAlarm(m, StageMessage(stage))
         IN IF ShowsDialog(m)
            THEN [raised EXCEPT !.dialogs =
                     Append(@, [stage |-> StageAfter(stage),
                                heart_rate |-> heart_rate])]
            ELSE DetectArrhythmiasFrom(raised, StageAfter(stage), heart_rate, draw)
    ELSE DetectArrhythmiasFrom(m, StageAfter(stage), heart_rate, draw)

\* lines 1170-1179: the ECG slice fills the display and the pleth slice, cut
\* at the same indices from pleth_data, does not
PlotMismatch(m) ==
    LET end_idx == Min(m.current_index + DisplayPoints, m.ecg_data)
        pleth_slice == Max(0, Min(end_idx, m.pleth_data) - m.current_index)
    IN end_idx - m.current_index = DisplayPoints /\ pleth_slice /= DisplayPoints

\* lines 1060-1069 with update_plot (1163-1214): one timeout of self.timer
UpdateMonitor(m, draw) ==
    IF m.current_index >= m.ecg_data
    THEN UpdateVitalSigns(m, draw.hr)
    ELSE IF PlotMismatch(m) /\ draw.raises
    THEN m
    ELSE DetectArrhythmiasFrom(m, "bradycardia", m.hr, draw)

\* the alert box on top is closed: msg.exec_() returns and the handler that
\* showed it runs on
CloseDialog(m, draw) ==
    LET top == m.dialogs[Len(m.dialogs)]
        popped == [m EXCEPT !.dialogs = SubSeq(@, 1, Len(@) - 1)]
    IN DetectArrhythmiasFrom(popped, top.stage, top.heart_rate, draw)

\* lines 1338-1349
MuteAlarm(m) ==
    [m EXCEPT !.alarm_active = FALSE,
              !.alarm_label = "Alarm Silenced",
              !.mute_btn = FALSE,
              !.restore_timers = @ + 1]

\* lines 1372-1375: the single-shot timer of mute_alarm fires
RestoreAlarmCapability(m) ==
    LET fired == [m EXCEPT !.restore_timers = @ - 1]
    IN IF ~m.alarm_active
       THEN [fired EXCEPT !.alarm_label = "ECG: Normal"]
       ELSE fired

\* lines 1219-1228: a line of the display is given fewer points than it has
\* x data
ResetMismatch(m) ==
    LET end_idx == Min(DisplayPoints, m.ecg_data)
    IN end_idx /= DisplayPoints \/ Min(end_idx, m.pleth_data) /= DisplayPoints

\* lines 1216-1247; when draw() raises nothing after line 1226 runs
ResetDisplay(m, raises) ==
    LET rewound == [m EXCEPT !.current_index = 0]
    IN IF ResetMismatch(m) /\ raises
       THEN rewound
       ELSE [rewound EXCEPT !.alarm_label = "ECG: Normal",
                            !.alarm_active = FALSE,
                            !.mute_btn = FALSE]

\* lines 950-957: the fields generate_sample_data writes
GenerateSampleData(m) ==
    [m EXCEPT !.ecg_data = SampleLength, !.pleth_data = SampleLength,
              !.hr = SampleHr]

\* lines 774-796: a file with an 'ecg' column of `samples` values is loaded,
\* a file without one is refused, and without a file sample data is generated
LoadData(m, file, raises) ==
    CASE file.kind = "none" -> GenerateSampleData(m)
      [] file.kind = "unreadable" -> m
      [] file.kind = "ecg" ->
            ResetDisplay([m EXCEPT !.ecg_data = file.samples,
                                   !.current_index = 0], raises)

\* lines 1018-1058: the timer is started or stopped
ToggleMonitoring(m) == [m EXCEPT !.is_monitoring = ~@]

----------------------------------------------------------------------------
(* The analyzer and the calls made on it *)

Init ==
    /\ sampling_rate = DefaultSamplingRate
    /\ normal_ranges = NormalRanges
    /\ pc = "idle"
    /\ call = "none"
    /\ args = None
    /\ ret = None
    /\ trace = <<>>
    /\ history = <<>>
    /\ monitor = InitialMonitor

\* a direct call of determine_arrhythmias
CallDetermineArrhythmias ==
    /\ pc = "idle"
    /\ \E analysis_results \in ArgAnalysisResults :
          /\ args' = analysis_results
          /\ ret' = DetermineArrhythmias(analysis_results)
          /\ trace' = DetermineTrace(analysis_results)
    /\ call' = "determine_arrhythmias"
    /\ pc' = "returned"
    /\ UNCHANGED <<sampling_rate, normal_ranges, history, monitor>>

\* a call of analyze_ecg
CallAnalyzeEcg ==
    /\ pc = "idle"
    /\ \E ecg_signal \in Signals :
          /\ args' = ecg_signal
          /\ ret' = AnalyzeEcg(ecg_signal)
          /\ trace' = IF InsufficientPeaks(DetectRPeaks(ecg_signal)) THEN <<>>
                      ELSE DetermineTrace(
                             StageResults(ecg_signal, DetectRPeaks(ecg_signal)))
    /\ call' = "analyze_ecg"
    /\ pc' = "returned"
    /\ UNCHANGED <<sampling_rate, normal_ranges, history, monitor>>

\* a direct call of frequency_domain_analysis
CallFrequencyDomainAnalysis ==
    /\ pc = "idle"
    /\ \E a \in FreqArgs :
          /\ args' = a
          /\ ret' = FrequencyDomainAnalysis(a.ecg_signal, a.r_peaks)
    /\ trace' = <<>>
    /\ call' = "frequency_domain_analysis"
    /\ pc' = "returned"
    /\ UNCHANGED <<sampling_rate, normal_ranges, history, monitor>>

\* a direct call of detect_r_peaks
CallDetectRPeaks ==
    /\ pc = "idle"
    /\ \E ecg_signal \in DetectArgs :
          /\ args' = ecg_signal
          /\ ret' = DetectRPeaks(ecg_signal)
    /\ trace' = <<>>
    /\ call' = "detect_r_peaks"
    /\ pc' = "returned"
    /\ UNCHANGED <<sampling_rate, normal_ranges, history, monitor>>

\* a direct call of analyze_rr_intervals
CallAnalyzeRRIntervals ==
    /\ pc = "idle"
    /\ \E r_peaks \in RRArgs :
          /\ args' = r_peaks
          /\ ret' = AnalyzeRRIntervals(r_peaks)
    /\ trace' = <<>>
    /\ call' = "analyze_rr_intervals"
    /\ pc' = "returned"
    /\ UNCHANGED <<sampling_rate, normal_ranges, history, monitor>>

\* the caller takes the result; the analyzer is ready for the next call
Return ==
    /\ pc = "returned"
    /\ pc' = "idle"
    /\ call' = "none"
    /\ args' = None
    /\ ret' = None
    /\ trace' = <<>>
    /\ UNCHANGED <<sampling_rate, normal_ranges, history, monitor>>

Next ==
    \/ CallAnalyzeEcg
    \/ CallDetectRPeaks
    \/ CallAnalyzeRRIntervals
    \/ CallFrequencyDomainAnalysis
    \/ CallDetermineArrhythmias
    \/ Return

Spec == Init /\ [][Next]_vars

----------------------------------------------------------------------------
(* Repeated runs of analyze_ecg on one analyzer *)

\* the most runs the caller logs
MaxRuns == 2

\* the signals of the repeated runs: one with a single R peak and one with
\* four, each with every refinement and P-wave finding of the model
RepeatSignals ==
    { sig \in SignalsWith(500, CoarsePeaks(240, <<250, 250>>, 1))
             \cup SignalsWith(1000, CoarsePeaks(10, <<50, 300>>, 4)) :
        sig.qrs[1] = QrsBroad /\ sig.qrs[2] = QrsNarrow }

\* lines 515-559 with the rate of a resampled copy stored in the analyzer
SamplingRateResampled(rate) == rate \div 2

\* lines 515-559: self.sampling_rate after analyze_ecg, which never assigns it
SamplingRateAfterAnalysis(rate) == rate

\* a run of analyze_ecg that the caller logs: the signal given, the result, and
\* the signal as it is after the call
RepeatAnalyzeEcg ==
    /\ pc = "idle"
    /\ Len(history) < MaxRuns
    /\ \E ecg_signal \in RepeatSignals :
          /\ args' = ecg_signal
          /\ ret' = AnalyzeEcg(ecg_signal)
          /\ trace' = IF InsufficientPeaks(DetectRPeaks(ecg_signal)) THEN <<>>
                      ELSE DetermineTrace(
                             StageResults(ecg_signal, DetectRPeaks(ecg_signal)))
          /\ history' = Append(history, [signal |-> ecg_signal, after |-> args',
                                         result |-> ret'])
    /\ call' = "analyze_ecg"
    /\ pc' = "returned"
    /\ sampling_rate' = SamplingRateAfterAnalysis(sampling_rate)
    /\ UNCHANGED <<normal_ranges, monitor>>

RepeatNext ==
    \/ RepeatAnalyzeEcg
    \/ CallAnalyzeRRIntervals
    \/ Return

SpecRepeat == Init /\ [][RepeatNext]_vars

----------------------------------------------------------------------------
(* The monitor window: its timers and its buttons *)

\* the most single-shot timers of mute_alarm (30 s each) pending at a time
MaxSilenceTimers == 2

\* the recordings loaded from a file, by their number of samples: none, less
\* than a display, just over one, and just over the sample data
FileLengths == {0, 1000, 1540, 15040, 15100}

\* what the file dialog of load_data answers with
FileChoices ==
    {[kind |-> "none", samples |-> 0], [kind |-> "unreadable", samples |-> 0]}
    \cup {[kind |-> "ecg", samples |-> n] : n \in FileLengths}

\* the alert box is modal: while one is open only the timers run
NoDialogOpen == monitor.dialogs = <<>>

\* self.timer times out (line 206): update_monitor
TimerTimeout ==
    /\ monitor.is_monitoring
    /\ \E draw \in Draws : monitor' = UpdateMonitor(monitor, draw)
    /\ UNCHANGED analyzer_vars

\* the alert box is closed with OK
DialogClosed ==
    /\ ~NoDialogOpen
    /\ \E draw \in Draws : monitor' = CloseDialog(monitor, draw)
    /\ UNCHANGED analyzer_vars

\* the Silence button, enabled by trigger_alarm (lines 606, 1303)
SilenceClicked ==
    /\ NoDialogOpen
    /\ monitor.mute_btn
    /\ monitor.restore_timers < MaxSilenceTimers
    /\ monitor' = MuteAlarm(monitor)
    /\ UNCHANGED analyzer_vars

\* a single-shot timer of mute_alarm fires (line 1349)
RestoreTimeout ==
    /\ monitor.restore_timers > 0
    /\ monitor' = RestoreAlarmCapability(monitor)
    /\ UNCHANGED analyzer_vars

\* the Reset button (line 767)
ResetClicked ==
    /\ NoDialogOpen
    /\ \E raises \in BOOLEAN : monitor' = ResetDisplay(monitor, raises)
    /\ UNCHANGED analyzer_vars

\* the Load button (line 661)
LoadClicked ==
    /\ NoDialogOpen
    /\ \E file \in FileChoices, raises \in BOOLEAN :
          monitor' = LoadData(monitor, file, raises)
    /\ UNCHANGED analyzer_vars

\* the Start / Stop button (line 680)
MonitorClicked ==
    /\ NoDialogOpen
    /\ monitor' = ToggleMonitoring(monitor)
    /\ UNCHANGED analyzer_vars

MonitorNext ==
    \/ TimerTimeout
    \/ DialogClosed
    \/ SilenceClicked
    \/ RestoreTimeout
    \/ ResetClicked
    \/ LoadClicked
    \/ MonitorClicked

SpecMonitor == Init /\ [][MonitorNext]_vars

----------------------------------------------------------------------------
(* Properties of determine_arrhythmias *)

Determined == pc = "returned" /\ call = "determine_arrhythmias"

\* the classifier ran its rules (it did not return at line 589)
RulesRan == Determined /\ Len(trace) = 9

\* The three AFib evidence sources, read off the arguments.  A source fires when
\* the classifier evaluates it, which it does when the RR record is present and
\* not empty.
ArgHasRR ==
    /\ "rr_analysis" \in DOMAIN args
    /\ args.rr_analysis /= None
    /\ args.rr_analysis /= EmptyDict
ArgPScore ==
    IF args.p_wave_analysis = None THEN 0 ELSE args.p_wave_analysis.afib_probability
ArgFScore ==
    IF args.freq_analysis = None THEN 0 ELSE args.freq_analysis.afib_probability
PSourceFired == ArgHasRR /\ ArgPScore > Pct(50)
RRSourceFired ==
    ArgHasRR /\ args.rr_analysis.irregularity /\ args.rr_analysis.rmssd > 100
FSourceFired == ArgHasRR /\ ArgFScore > Pct(50)
SourcesFired ==
    (IF PSourceFired THEN 1 ELSE 0) + (IF RRSourceFired THEN 1 ELSE 0)
    + (IF FSourceFired THEN 1 ELSE 0)

\* C1: after every call of determine_arrhythmias the AFib confidence is "high"
\* exactly when all three evidence sources fired, "medium" when exactly two
\* fired, and "low" when fewer than two fired.
C1_AfibConfidence ==
    Determined =>
        /\ (ret.afib.confidence = "high") <=> (SourcesFired = 3)
        /\ (SourcesFired = 2) => (ret.afib.confidence = "medium")
        /\ (SourcesFired < 2) => (ret.afib.confidence = "low")

\* C1 witness: a call in which all three sources fired and the confidence is high
C1_Witness ==
    Determined /\ SourcesFired = 3 /\ ret.afib.confidence = "high"

\* C3: every probability of a returned verdict set lies in [0, 100].
C3_ProbabilityRange ==
    Determined =>
        \A k \in ArrhythmiaNames :
            ret[k].probability >= 0 /\ ret[k].probability <= Pct(100)

\* C3 witness: the rules drove sinus_rhythm below 0 and the clamp returned it to 0
C3_Witness ==
    /\ RulesRan
    /\ trace[7].arrhythmias.sinus_rhythm.probability < 0
    /\ ret.sinus_rhythm.probability = 0

NonSinusAbove70 ==
    \E k \in ArrhythmiaNames \ {"sinus_rhythm"} : ret[k].probability > Pct(70)

C4_SinusZeroReached ==
    Determined /\ ~NonSinusAbove70 /\ ret.sinus_rhythm.probability = 0

\* the weighted sum of the sources that fired
AfibSum ==
    (IF PSourceFired THEN (ArgPScore * 4) \div 10 ELSE 0)
    + (IF RRSourceFired THEN Pct(60) ELSE 0)
    + (IF FSourceFired THEN (ArgFScore * 3) \div 10 ELSE 0)

\* C5: with at least two sources fired, the AFib probability is
\* min(95, 0.4 * P score + 60 + 0.3 * frequency score), each term only for a
\* source that fired, and the AFib rule lowers sinus_rhythm by that probability,
\* not below 0; with fewer than two fired, AFib stays at 0 / low, its evidence
\* count stays 0, and the AFib rule leaves sinus_rhythm alone.
C5_AfibDiagnosis ==
    Determined =>
        /\ (SourcesFired >= 2) =>
              /\ ret.afib.probability = Min(Pct(95), AfibSum)
              /\ ret.evidence_counts.afib = SourcesFired
              /\ trace[4].arrhythmias.sinus_rhythm.probability =
                   Max(0, trace[3].arrhythmias.sinus_rhythm.probability
                          - Min(Pct(95), AfibSum))
        /\ (SourcesFired < 2) =>
              /\ ret.afib = [probability |-> 0, confidence |-> "low"]
              /\ RulesRan =>
                   /\ ret.evidence_counts.afib = 0
                   /\ trace[4].arrhythmias.sinus_rhythm.probability =
                        trace[3].arrhythmias.sinus_rhythm.probability

\* C5 witness: two sources fired, the sum is under the cap, and the subtraction
\* stopped at 0
C5_Witness ==
    /\ RulesRan
    /\ SourcesFired = 2
    /\ ret.afib.probability = AfibSum
    /\ AfibSum > trace[3].arrhythmias.sinus_rhythm.probability
    /\ trace[4].arrhythmias.sinus_rhythm.probability = 0

\* the number of rules of the classifier that can fire for each arrhythmia
RulesFor(k) ==
    CASE k = "afib" -> 3
      [] k = "heart_block" -> 2
      [] k = "sinus_rhythm" -> 0
      [] OTHER -> 1

\* C10: every count of the returned evidence-count map is at most the number of
\* rules that exist for that arrhythmia.
C10_EvidenceCounts ==
    RulesRan =>
        \A k \in ArrhythmiaNames : ret.evidence_counts[k] <= RulesFor(k)

\* C10, the failing call: a QRS record listing 2 PVC beats among 10 R peaks, and
\* an evidence count of 2 for the one PVC rule
C10_FailingCall ==
    /\ RulesRan
    /\ args.qrs_analysis /= None
    /\ Len(args.qrs_analysis.pvc_locations) = 2
    /\ Len(args.r_peaks) = 10
    /\ ret.evidence_counts.pvc = 2

----------------------------------------------------------------------------
(* Properties of analyze_ecg and frequency_domain_analysis *)

Analyzed == pc = "returned" /\ call = "analyze_ecg"

FreqAnalyzed == pc = "returned" /\ call = "frequency_domain_analysis"

FullResultKeys ==
    {"r_peaks", "rr_analysis", "p_wave_analysis", "qrs_analysis", "freq_analysis",
     "arrhythmias"}

\* C2: a call of analyze_ecg that detects fewer than 2 R peaks returns exactly
\* the keys error (the fixed message) and r_peaks and runs no later stage; one
\* that detects 2 or more returns exactly the six keys of a full result.
C2_ResultKeys ==
    Analyzed =>
        IF Len(ret.r_peaks) < 2
        THEN /\ DOMAIN ret = {"error", "r_peaks"}
             /\ ret.error = "Insufficient R peaks detected for analysis"
             /\ trace = <<>>
        ELSE DOMAIN ret = FullResultKeys

\* C2 witness: a signal with a single R peak, answered with the error record
C2_Witness ==
    Analyzed /\ Len(ret.r_peaks) = 1 /\ DOMAIN ret = {"error", "r_peaks"}

\* C6: frequency_domain_analysis returns None for a signal of fewer than 1000
\* samples or fewer than 10 R peaks; analyze_ecg then still returns a full
\* result, with freq_analysis None and a verdict set in which the frequency
\* source has not fired.
C6_NoSpectrum ==
    /\ FreqAnalyzed =>
          ((args.ecg_signal.len < 1000 \/ Len(args.r_peaks) < 10) => ret = None)
    /\ (Analyzed /\ Len(ret.r_peaks) >= 2
          /\ (args.len < 1000 \/ Len(ret.r_peaks) < 10)) =>
          /\ DOMAIN ret = FullResultKeys
          /\ ret.freq_analysis = None
          /\ DOMAIN ret.arrhythmias = ArrhythmiaNames \cup {"evidence_counts"}
          /\ ret.arrhythmias.evidence_counts.afib \in {0, 2}
          /\ ret.arrhythmias.afib.confidence /= "high"

\* C6 witness: 10 R peaks or more in a signal under 1000 samples, analysed in
\* full without a frequency record
C6_Witness ==
    /\ Analyzed
    /\ args.len < 1000
    /\ Len(ret.r_peaks) >= 10
    /\ ret.freq_analysis = None
    /\ "arrhythmias" \in DOMAIN ret

\* C7: frequency_domain_analysis, given fewer than 10 R peaks and a signal of
\* at least 1000 samples, returns a record with the spectrum and with hrv_lf,
\* hrv_hf, lf_hf_ratio, wavelet_coeffs and afib_probability all null.
C7_NullHrvRecord ==
    (FreqAnalyzed /\ Len(args.r_peaks) < 10 /\ args.ecg_signal.len >= 1000) =>
        /\ ret /= None
        /\ ret.hrv_lf = None /\ ret.hrv_hf = None /\ ret.lf_hf_ratio = None
        /\ ret.wavelet_coeffs = None /\ ret.afib_probability = None
        /\ ret.ecg_fft /= None /\ ret.ecg_psd /= None

\* C7, the failing call: 9 R peaks in a signal of 1000 samples, answered with
\* None and no record
C7_FailingCall ==
    /\ FreqAnalyzed
    /\ Len(args.r_peaks) = 9 /\ args.ecg_signal.len = 1000
    /\ ret = None

\* C8 as stated: frequency_domain_analysis, given 500 samples and 12 R peaks,
\* returns a record with hrv_lf and hrv_hf populated.
C8_ShortSignalRecord ==
    (FreqAnalyzed /\ args.ecg_signal.len = 500 /\ Len(args.r_peaks) = 12) =>
        /\ ret /= None
        /\ ret.hrv_lf /= None /\ ret.hrv_hf /= None

\* C8 as amended: frequency_domain_analysis returns None for every signal of
\* fewer than 1000 samples, whatever the number of R peaks.
C8_ShortSignalNone ==
    (FreqAnalyzed /\ args.ecg_signal.len < 1000) => ret = None

\* C8 witness: 500 samples and 12 R peaks, answered with None
C8_Witness ==
    /\ FreqAnalyzed
    /\ args.ecg_signal.len = 500 /\ Len(args.r_peaks) = 12
    /\ ret = None

\* C9: in a full result of analyze_ecg every per-beat array has one entry per
\* R peak, and entry i belongs to r_peaks[i]: it is empty when that beat is too
\* close to an edge of the signal, and otherwise holds what was measured on
\* that beat.
C9_PerBeatArrays ==
    (Analyzed /\ Len(ret.r_peaks) >= 2) =>
        LET n == Len(ret.r_peaks)
            p == ret.p_wave_analysis
            q == ret.qrs_analysis
        IN /\ Len(p.p_present) = n /\ Len(p.pr_intervals) = n
           /\ Len(q.qrs_durations) = n /\ Len(q.qrs_areas) = n
           /\ Len(q.qrs_amplitudes) = n /\ Len(q.abnormal_qrs) = n
           /\ \A i \in 1..n :
                /\ p.p_present[i] <=> (ret.r_peaks[i] > 50 /\ args.p_idx[i] > 0)
                /\ p.pr_intervals[i] =
                     IF p.p_present[i] THEN 4 * (50 - args.p_idx[i]) ELSE 0
                /\ q.qrs_durations[i] =
                     IF ret.r_peaks[i] < 15 \/ ret.r_peaks[i] + 15 >= args.len
                     THEN 0
                     ELSE 4 * ((15 + args.qrs[i].s_idx) - args.qrs[i].q_idx)
                /\ q.qrs_amplitudes[i] =
                     IF ret.r_peaks[i] < 15 \/ ret.r_peaks[i] + 15 >= args.len
                     THEN 0 ELSE args.qrs[i].amplitude

\* C9 witness: the first beat too close to the start for both searches, the
\* last one measured, a P wave found before some beats and not others
C9_Witness ==
    /\ Analyzed /\ Len(ret.r_peaks) >= 3
    /\ ret.r_peaks[1] < 15
    /\ ret.qrs_analysis.qrs_durations[1] = 0
    /\ ret.qrs_analysis.qrs_durations[Len(ret.r_peaks)] > 0
    /\ ~ret.p_wave_analysis.p_present[1]
    /\ ~ret.p_wave_analysis.p_present[2]
    /\ ret.p_wave_analysis.p_present[3]
    /\ Len(ret.p_wave_analysis.p_present) = Len(ret.r_peaks)

\* C9, the other edge: a last beat too close to the end of the signal (reachable)
C9_LastBeatSkipped ==
    /\ Analyzed /\ Len(ret.r_peaks) >= 2
    /\ ret.r_peaks[Len(ret.r_peaks)] + 15 >= args.len
    /\ ret.qrs_analysis.qrs_durations[Len(ret.r_peaks)] = 0
    /\ ret.qrs_analysis.qrs_durations[1] > 0

----------------------------------------------------------------------------
(* Properties of detect_r_peaks and analyze_rr_intervals *)

RRAnalyzed == pc = "returned" /\ call = "analyze_rr_intervals"

PeaksDetected == pc = "returned" /\ call = "detect_r_peaks"

\* C11: analyze_rr_intervals, given 2 R peaks or more, never sets bradycardia
\* and tachycardia together, and no result of analyze_ecg has both verdicts at
\* probability 90.
C11_BradyTachyExclusive ==
    /\ (RRAnalyzed /\ Len(args) >= 2) => ~(ret.bradycardia /\ ret.tachycardia)
    /\ (Analyzed /\ Len(ret.r_peaks) >= 2) =>
          /\ ~(ret.rr_analysis.bradycardia /\ ret.rr_analysis.tachycardia)
          /\ ~(/\ ret.arrhythmias.bradycardia.probability = Pct(90)
               /\ ret.arrhythmias.tachycardia.probability = Pct(90))

\* C11 witness: a run of analyze_ecg that sets the bradycardia flag and verdict
\* and leaves tachycardia at 0
C11_Witness ==
    /\ Analyzed /\ Len(ret.r_peaks) >= 2
    /\ ret.rr_analysis.bradycardia
    /\ ret.arrhythmias.bradycardia.probability = Pct(90)
    /\ ret.arrhythmias.tachycardia.probability = 0

\* C11, the other flag: a direct call that sets tachycardia alone (reachable)
C11_TachycardiaAlone ==
    RRAnalyzed /\ Len(args) >= 2 /\ ret.tachycardia /\ ~ret.bradycardia

\* C14: the R peaks returned by detect_r_peaks are strictly increasing and each
\* is a position of the signal, 0 <= index < len(signal); so are the R peaks
\* of every analyze_ecg result.
C14_RPeaksOrdered ==
    /\ PeaksDetected =>
          /\ \A i \in DOMAIN ret : ret[i] >= 0 /\ ret[i] < args.len
          /\ \A i \in DOMAIN ret : i > 1 => ret[i - 1] < ret[i]
    /\ Analyzed =>
          /\ \A i \in DOMAIN ret.r_peaks :
                ret.r_peaks[i] >= 0 /\ ret.r_peaks[i] < args.len
          /\ \A i \in DOMAIN ret.r_peaks : i > 1 => ret.r_peaks[i - 1] < ret.r_peaks[i]

\* C14 witness: coarse peaks at the minimum distance, the first moved to the
\* last sample of its window and the second to the first sample of its own,
\* and a coarse peak at the edge dropped
C14_Witness ==
    /\ PeaksDetected
    /\ Len(args.find_peaks) >= 3
    /\ Len(ret) = Len(args.find_peaks) - 1
    /\ args.find_peaks[3] - args.find_peaks[2] = 50
    /\ ret[2] - ret[1] = 39

UniformlySpaced(r_peaks, sp) ==
    \A i \in DOMAIN r_peaks : i > 1 => r_peaks[i] - r_peaks[i - 1] = sp

\* C16: for R peaks a constant sp samples apart at rate 250,
\* analyze_rr_intervals sets bradycardia exactly when 60 * 250 / sp < 60 and
\* tachycardia exactly when 60 * 250 / sp > 100; a rate of exactly 60 or 100
\* sets neither.
C16_RateFlags ==
    (RRAnalyzed /\ Len(args) >= 2) =>
        \A sp \in UniformSpacings :
            UniformlySpaced(args, sp) =>
                /\ ret.bradycardia <=> (60 * 250 < 60 * sp)
                /\ ret.tachycardia <=> (60 * 250 > 100 * sp)
                /\ sp \in {150, 250} => (~ret.bradycardia /\ ~ret.tachycardia)
                /\ sp = 300 => ret.bradycardia
                /\ sp = 125 => ret.tachycardia

\* C16 witness: peaks 250 samples apart, a rate of exactly 60 and neither flag
C16_Witness ==
    /\ RRAnalyzed /\ Len(args) >= 3
    /\ UniformlySpaced(args, 250)
    /\ ret.average_hr = 60000
    /\ ~ret.bradycardia /\ ~ret.tachycardia

\* C16, the other limit: peaks 150 samples apart, a rate of exactly 100 and
\* neither flag (reachable)
C16_ExactlyHundred ==
    /\ RRAnalyzed /\ Len(args) >= 3
    /\ UniformlySpaced(args, 150)
    /\ ret.average_hr = 100000
    /\ ~ret.bradycardia /\ ~ret.tachycardia

----------------------------------------------------------------------------
(* Properties of the wavelet decomposition *)

\* the record of the same call had the decomposition succeeded on a quiet signal
QuietRecord ==
    FrequencyDomainAnalysis([args.ecg_signal EXCEPT !.wavelet = "quiet"],
                            args.r_peaks)

\* C13: when the wavelet decomposition fails, frequency_domain_analysis still
\* returns its record, with wavelet_coeffs null, without the +20 of the noise
\* test in afib_probability, and with the spectrum, hrv_lf, hrv_hf and
\* lf_hf_ratio as they are when the decomposition succeeds.
C13_WaveletFailure ==
    (/\ FreqAnalyzed
     /\ args.ecg_signal.len >= 1000 /\ Len(args.r_peaks) >= 10
     /\ args.ecg_signal.wavelet = "failed") =>
        /\ ret /= None
        /\ ret.wavelet_coeffs = None
        /\ ret.afib_probability \in {0, Pct(30), Pct(60)}
        /\ ret.afib_probability = QuietRecord.afib_probability
        /\ ret.hrv_lf = args.ecg_signal.hrv.lf
        /\ ret.hrv_hf = args.ecg_signal.hrv.hf
        /\ ret.lf_hf_ratio = QuietRecord.lf_hf_ratio
        /\ ret.ecg_fft = QuietRecord.ecg_fft
        /\ ret.ecg_freqs = QuietRecord.ecg_freqs
        /\ ret.ecg_psd = QuietRecord.ecg_psd

\* C13 witness: a failed decomposition on a signal whose tachogram gives both
\* +30 contributions: a record with a score of 60 and no coefficients
C13_Witness ==
    /\ FreqAnalyzed
    /\ args.ecg_signal.wavelet = "failed"
    /\ ret /= None
    /\ ret.wavelet_coeffs = None
    /\ ret.afib_probability = Pct(60)
    /\ ret.hrv_hf = 3

\* C13, the contrast: the same tachogram with a noisy decomposition scores 80
\* (reachable)
C13_NoisyScores80 ==
    /\ FreqAnalyzed
    /\ args.ecg_signal.wavelet = "noisy"
    /\ ret /= None
    /\ ret.wavelet_coeffs /= None
    /\ ret.afib_probability = Pct(80)

----------------------------------------------------------------------------
(* Properties of repeated runs *)

C15_AfterAnotherSignal ==
    /\ Len(history) = 2
    /\ history[1].signal /= history[2].signal
    /\ history[1].result /= history[2].result

----------------------------------------------------------------------------
(* Properties of the rules of determine_arrhythmias *)

\* no rule changed a verdict or a counter: the call returned at line 589, or
\* the locals after the last rule are the initial ones
NoRuleFired == Determined /\ (~RulesRan \/ trace[7] = trace[1])

\* C17: when no rule fires, determine_arrhythmias returns sinus_rhythm at
\* 100 / high and every other arrhythmia at 0 / low, and every returned verdict
\* set has the evidence_counts map, also when the RR record is missing or
\* empty.
C17_BaselineWithCounts ==
    Determined =>
        /\ "evidence_counts" \in DOMAIN ret
        /\ NoRuleFired =>
              /\ ret.sinus_rhythm = [probability |-> Pct(100), confidence |-> "high"]
              /\ \A k \in ArrhythmiaNames \ {"sinus_rhythm"} :
                    ret[k] = [probability |-> 0, confidence |-> "low"]

\* C17, the failing call: an RR record of None, answered with the initial
\* verdicts and no evidence_counts
C17_FailingCall ==
    /\ Determined
    /\ "rr_analysis" \in DOMAIN args /\ args.rr_analysis = None
    /\ DOMAIN ret = ArrhythmiaNames
    /\ ret.sinus_rhythm = [probability |-> Pct(100), confidence |-> "high"]

ArgPvcCount ==
    IF args.qrs_analysis = None THEN 0 ELSE Len(args.qrs_analysis.pvc_locations)

\* C18: with PVC beats and p = 100 * pvc_count / r_peak_count, the PVC rule
\* sets pvc to 90 / high and takes 50 from sinus_rhythm when p > 10, 70 / medium
\* and 30 when 5 < p <= 10, 50 / low and 10 when 0 < p <= 5; with no PVC beat it
\* leaves pvc at 0 / low and sinus_rhythm as it was.
C18_PvcBurden ==
    RulesRan =>
        LET c == ArgPvcCount
            n == Len(args.r_peaks)
            pvc == trace[5].arrhythmias.pvc
            drop == trace[4].arrhythmias.sinus_rhythm.probability
                    - trace[5].arrhythmias.sinus_rhythm.probability
        IN /\ (c > 0 /\ n > 0 /\ 100 * c > 10 * n) =>
                 pvc = [probability |-> Pct(90), confidence |-> "high"]
                 /\ drop = Pct(50)
           /\ (c > 0 /\ n > 0 /\ 100 * c > 5 * n /\ 100 * c <= 10 * n) =>
                 pvc = [probability |-> Pct(70), confidence |-> "medium"]
                 /\ drop = Pct(30)
           /\ (c > 0 /\ n > 0 /\ 100 * c <= 5 * n) =>
                 pvc = [probability |-> Pct(50), confidence |-> "low"]
                 /\ drop = Pct(10)
           /\ c = 0 =>
                 pvc = [probability |-> 0, confidence |-> "low"] /\ drop = 0
           /\ ret.pvc = pvc

\* C18 witness: 1 PVC beat in 10, a burden of exactly 10 %: 70 / medium
C18_Witness ==
    /\ RulesRan
    /\ ArgPvcCount = 1 /\ Len(args.r_peaks) = 10
    /\ ret.pvc = [probability |-> Pct(70), confidence |-> "medium"]

\* C18, the lower limit: 1 PVC beat in 20, exactly 5 %: 50 / low (reachable)
C18_ExactlyFive ==
    /\ RulesRan
    /\ ArgPvcCount = 1 /\ Len(args.r_peaks) = 20
    /\ ret.pvc = [probability |-> Pct(50), confidence |-> "low"]

\* the two heart-block conditions, read off the arguments
ArgMeanPrAbove200 ==
    /\ args.p_wave_analysis /= None
    /\ LET pr == Positive(args.p_wave_analysis.pr_intervals)
       IN Len(pr) > 0 /\ SumSeq(pr) > 200 * Len(pr)
ArgMorePThanR ==
    /\ args.p_wave_analysis /= None
    /\ CountTrue(args.p_wave_analysis.p_present) > Len(args.r_peaks)

C19_SecondRuleAlone ==
    /\ RulesRan
    /\ ~ArgMeanPrAbove200 /\ ArgMorePThanR
    /\ ret.heart_block.probability = Pct(70)

----------------------------------------------------------------------------
(* The cases of the PVC test and of the bundle-branch-block heuristic *)

QrsAnalyzed == Analyzed /\ Len(ret.r_peaks) >= 2

\* C12 is about a beat that passes the PVC test of lines 310-315, C20 about a
\* record in which more than 70 % of the beats are wide (line 327).  Both need
\* a QRS duration above 120 ms.  The Q point is at most 15 samples before the
\* R peak and the S point at most 14 after it (lines 261-271), so a duration is
\* at most 29 samples, 116 ms: the widest beat is reached, a wide one is not.
WidestBeatReached ==
    /\ QrsAnalyzed
    /\ \E i \in DOMAIN ret.qrs_analysis.qrs_durations :
          ret.qrs_analysis.qrs_durations[i] = 116

\* a beat recorded as a PVC (the case of C12): not reachable
PvcBeatFound == QrsAnalyzed /\ ret.qrs_analysis.pvc_locations /= <<>>

\* a record whose beats are mostly wide (the case of C20): not reachable
BundleBranchEvaluated ==
    /\ QrsAnalyzed
    /\ \/ 10 * ret.qrs_analysis.wide_qrs_percentage > 7 * Pct(100)
       \/ ret.qrs_analysis.lbbb_probability /= 0
       \/ ret.qrs_analysis.rbbb_probability /= 0

\* no state of the model is in either case
NoPvcBeatNoWideRecord == ~PvcBeatFound /\ ~BundleBranchEvaluated

----------------------------------------------------------------------------
(* Properties of the rate rules *)

\* what rule number r did to the verdict of arrhythmia k, given its flag in the
\* RR record: 90 / high, 30 off sinus_rhythm and one more in the counter for a
\* set flag; nothing for an unset one
RateRuleApplied(r, k, flag) ==
    LET before == trace[r]
        after == trace[r + 1]
        drop == before.arrhythmias.sinus_rhythm.probability
                - after.arrhythmias.sinus_rhythm.probability
    IN IF flag
       THEN /\ after.arrhythmias[k] = [probability |-> Pct(90), confidence |-> "high"]
            /\ drop = Pct(30)
            /\ after.evidence[k] = before.evidence[k] + 1
       ELSE /\ after.arrhythmias[k] = [probability |-> 0, confidence |-> "low"]
            /\ drop = 0
            /\ after.evidence[k] = before.evidence[k]

\* C21: for each of the flags bradycardia and tachycardia of the RR record,
\* determine_arrhythmias sets the verdict to 90 / high, takes 30 from
\* sinus_rhythm and adds 1 to the evidence count when the flag is set, and
\* leaves verdict, sinus_rhythm and count alone when it is not.
C21_RateRules ==
    RulesRan =>
        /\ RateRuleApplied(1, "bradycardia", args.rr_analysis.bradycardia)
        /\ RateRuleApplied(2, "tachycardia", args.rr_analysis.tachycardia)
        /\ ret.bradycardia = trace[2].arrhythmias.bradycardia
        /\ ret.tachycardia = trace[3].arrhythmias.tachycardia
        /\ ret.evidence_counts.bradycardia =
             (IF args.rr_analysis.bradycardia THEN 1 ELSE 0)
        /\ ret.evidence_counts.tachycardia =
             (IF args.rr_analysis.tachycardia THEN 1 ELSE 0)

\* C21 witness: tachycardia set and bradycardia not: 90 / high, counted once,
\* and bradycardia at 0 / low
C21_Witness ==
    /\ RulesRan
    /\ args.rr_analysis.tachycardia /\ ~args.rr_analysis.bradycardia
    /\ ret.tachycardia = [probability |-> Pct(90), confidence |-> "high"]
    /\ ret.bradycardia = [probability |-> 0, confidence |-> "low"]
    /\ ret.evidence_counts.tachycardia = 1
    /\ trace[3].arrhythmias.sinus_rhythm.probability = Pct(70)

----------------------------------------------------------------------------
(* Properties of the P-wave record *)

\* a P-wave record was returned (two R peaks or more)
PWavesDetected == Analyzed /\ Len(ret.r_peaks) >= 2

\* C22: in every P-wave record a beat has a P wave exactly when its PR
\* interval is positive, the PR interval of a beat without one is exactly 0,
\* and p_wave_locations has as many entries as p_present has true ones.
C22_PWaveRecord ==
    PWavesDetected =>
        LET p == ret.p_wave_analysis
        IN /\ DOMAIN p.pr_intervals = DOMAIN p.p_present
           /\ \A i \in DOMAIN p.p_present :
                /\ p.p_present[i] <=> p.pr_intervals[i] > 0
                /\ ~p.p_present[i] => p.pr_intervals[i] = 0
           /\ Len(p.p_wave_locations) = CountTrue(p.p_present)

\* C22 witness: a first beat skipped although the segment before it would
\* have had a candidate, a searched beat without a candidate and a beat with a
\* P wave, in one record
C22_Witness ==
    /\ PWavesDetected /\ Len(ret.r_peaks) >= 3
    /\ PSkipped(ret.r_peaks[1]) /\ args.p_idx[1] > 0
    /\ ~PSkipped(ret.r_peaks[2]) /\ args.p_idx[2] = 0
    /\ ret.p_wave_analysis.p_present[3]
    /\ ret.p_wave_analysis.pr_intervals[1] = 0
    /\ ret.p_wave_analysis.pr_intervals[2] = 0
    /\ ret.p_wave_analysis.pr_intervals[3] > 0
    /\ Len(ret.p_wave_analysis.p_wave_locations) < Len(ret.r_peaks) - 2

----------------------------------------------------------------------------
(* Properties of the QRS record *)

\* the longest duration (ms) the two half-windows allow: Q at the first sample
\* of the first half, S at the last sample of the second
LongestQrs == Ms(2 * QrsHalfWidth - 1)

\* C23: Q is searched in the first 60 ms half-window and S in the second, so
\* every measured QRS duration is at most (2*int(0.06*rate) - 1)/rate, below
\* 120 ms; no beat is ever wide: wide_qrs_percentage is 0, pvc_locations is
\* empty and lbbb_probability and rbbb_probability are 0.
C23_NeverWide ==
    QrsAnalyzed =>
        LET q == ret.qrs_analysis
        IN /\ LongestQrs < 120
           /\ \A i \in DOMAIN q.qrs_durations :
                q.qrs_durations[i] <= LongestQrs /\ ~Wide(q.qrs_durations[i])
           /\ q.wide_qrs_percentage = 0
           /\ q.pvc_locations = <<>>
           /\ q.lbbb_probability = 0
           /\ q.rbbb_probability = 0

\* C23 witness: every measured beat of the longest duration there is, inverted
\* beats in the record with the shortest, and no wide beat counted
C23_Witness ==
    /\ QrsAnalyzed /\ Len(ret.r_peaks) >= 3
    /\ \A i \in 2..Len(ret.r_peaks) - 1 :
          ret.qrs_analysis.qrs_durations[i] = LongestQrs
    /\ LongestQrs = 116
    /\ ret.qrs_analysis.wide_qrs_percentage = 0
    /\ ret.qrs_analysis.pvc_locations = <<>>

\* C23, the inverted and notched beats that the bundle-branch heuristic would
\* score if the record were mostly wide (reachable)
C23_InvertedNotWide ==
    /\ QrsAnalyzed
    /\ \A i \in DOMAIN ret.r_peaks :
          ~QrsSkipped(args, ret.r_peaks[i]) /\ args.qrs[i].neg /\ args.qrs[i].notch
    /\ ret.qrs_analysis.lbbb_probability = 0
    /\ ret.qrs_analysis.rbbb_probability = 0

----------------------------------------------------------------------------
(* The heart-block verdict of analyze_ecg *)

\* C24: in an analyze_ecg result heart_block stays at 0 / low: every P wave
\* found lies inside [R - 200 ms, R - 50 ms), so every positive PR interval is
\* below 200 ms and their mean is not above it, and there are never more
\* present P waves than R peaks.
C24_NoHeartBlock ==
    PWavesDetected =>
        LET p == ret.p_wave_analysis
        IN /\ \A i \in DOMAIN p.pr_intervals :
                p.p_present[i] =>
                    /\ p.pr_intervals[i] < 200 /\ p.pr_intervals[i] > 50
                    /\ \E j \in DOMAIN p.p_wave_locations :
                          /\ p.p_wave_locations[j] >= ret.r_peaks[i] - PSearchWindow
                          /\ p.p_wave_locations[j] < ret.r_peaks[i] - PSearchGap
                          /\ Ms(ret.r_peaks[i] - p.p_wave_locations[j])
                               = p.pr_intervals[i]
           /\ SumSeq(Positive(p.pr_intervals)) <= 200 * Len(Positive(p.pr_intervals))
           /\ CountTrue(p.p_present) <= Len(ret.r_peaks)
           /\ ret.arrhythmias.heart_block = [probability |-> 0, confidence |-> "low"]
           /\ Len(trace) = 9 => trace[6] = trace[5]

\* C24 witness: a P wave as early as one can be found, 196 ms before the R
\* peak, before every beat that is searched; the heart-block rule has run and
\* the verdict is 0 / low
C24_Witness ==
    /\ PWavesDetected /\ Len(trace) = 9
    /\ \E i \in DOMAIN ret.r_peaks : ret.p_wave_analysis.p_present[i]
    /\ \A i \in DOMAIN ret.r_peaks :
          ret.p_wave_analysis.p_present[i] =>
              ret.p_wave_analysis.pr_intervals[i] = 196
    /\ CountTrue(ret.p_wave_analysis.p_present) = Len(ret.r_peaks)
    /\ ret.arrhythmias.heart_block = [probability |-> 0, confidence |-> "low"]

----------------------------------------------------------------------------
(* The P-wave AFib score without P waves *)

\* at most one P wave was found in the whole record
AtMostOnePWave == PWavesDetected /\ CountTrue(ret.p_wave_analysis.p_present) <= 1

\* the number of AFib sources other than the P-wave one that fire on a result
OtherAfibSources(result) ==
    (IF RRAfibSignal(result) THEN 1 ELSE 0) + (IF FreqAfibSignal(result) THEN 1 ELSE 0)

C25_SinglePWave ==
    /\ AtMostOnePWave
    /\ CountTrue(ret.p_wave_analysis.p_present) = 1
    /\ ret.p_wave_analysis.afib_probability > 0
    /\ ret.p_wave_analysis.afib_probability < 3330

----------------------------------------------------------------------------
(* analyze_rr_intervals on two R peaks *)

\* C26: analyze_rr_intervals on exactly two R peaks returns a record, in which
\* pnn50 is 0 / 0 and rmssd the mean of nothing: both are NaN, no number in
\* [0, 100], and irregularity is false.  On three peaks or more pnn50 is a
\* percentage in [0, 100].
C26_TwoPeaks ==
    RRAnalyzed =>
        /\ Len(args) = 2 =>
              /\ ret /= None
              /\ Len(ret.rr_intervals) = 1
              /\ ret.pnn50 = NaN /\ ret.pnn50 \notin 0..Pct(100)
              /\ ret.rmssd = NaN
              /\ ret.irregularity = FALSE
        /\ Len(args) >= 3 =>
              /\ ret.pnn50 /= NaN /\ ret.pnn50 \in 0..Pct(100)
              /\ ret.rmssd /= NaN

\* C26 witness: two R peaks 250 samples apart: a record with 60 bpm, NaN for
\* pnn50 and rmssd, and a regular rhythm
C26_Witness ==
    /\ RRAnalyzed /\ Len(args) = 2
    /\ ret /= None
    /\ ret.average_hr = 60000
    /\ ret.pnn50 = NaN /\ ret.rmssd = NaN
    /\ ~ret.irregularity

\* C26, three peaks with one difference above 50 ms: pnn50 is 100 (reachable)
C26_ThreePeaks ==
    /\ RRAnalyzed /\ Len(args) = 3
    /\ ret.pnn50 = Pct(100)
    /\ ret.irregularity

----------------------------------------------------------------------------
(* Both heart-block rules *)

\* C27: when the mean PR interval is above 0.2 s and there are more present P
\* waves than R peaks, the second rule writes the confidence last: heart_block
\* ends with probability 80 and confidence "medium", not "high", and its
\* evidence count is 2.
C27_BothHeartBlockRules ==
    (RulesRan /\ ArgMeanPrAbove200 /\ ArgMorePThanR) =>
        /\ trace[6].arrhythmias.heart_block =
             [probability |-> Pct(80), confidence |-> "medium"]
        /\ trace[6].evidence.heart_block = trace[5].evidence.heart_block + 2
        /\ ret.heart_block = [probability |-> Pct(80), confidence |-> "medium"]
        /\ ret.heart_block.confidence /= "high"
        /\ ret.evidence_counts.heart_block = 2

\* C27 witness: twelve P waves at 240 ms against ten R peaks; the verdict is
\* 80 / medium on two pieces of evidence
C27_Witness ==
    /\ RulesRan /\ ArgMeanPrAbove200 /\ ArgMorePThanR
    /\ CountTrue(args.p_wave_analysis.p_present) = 12 /\ Len(args.r_peaks) = 10
    /\ SumSeq(args.p_wave_analysis.pr_intervals) = 12 * 240
    /\ ret.heart_block = [probability |-> Pct(80), confidence |-> "medium"]
    /\ ret.evidence_counts.heart_block = 2

\* C27, the first rule alone leaves the confidence at "high" (reachable)
C27_FirstRuleAlone ==
    /\ RulesRan /\ ArgMeanPrAbove200 /\ ~ArgMorePThanR
    /\ ret.heart_block = [probability |-> Pct(80), confidence |-> "high"]
    /\ ret.evidence_counts.heart_block = 1

----------------------------------------------------------------------------
(* Properties of the monitor window *)

\* vital_signs["hr"] is outside the range detect_arrhythmias accepts
HrOutOfRange == monitor.hr < 60 \/ monitor.hr > 100

\* the playback position is within the recording, a display short of its end
\* when the recording is longer than a display
IndexInRange ==
    /\ 0 <= monitor.current_index
    /\ monitor.ecg_data > DisplayPoints =>
          monitor.current_index < monitor.ecg_data - DisplayPoints

\* C28: after mute_alarm no new alarm is raised until the 30-second timer has
\* run restore_alarm_capability: while a timer of mute_alarm is pending,
\* alarm_active is not set and no alert box is shown, whatever the heart rate.
C28_SilencedForThirtySeconds ==
    monitor.restore_timers > 0 =>
        ~monitor.alarm_active /\ monitor.dialogs = <<>>

\* C28, the failing run: the alarm is silenced during bradycardia and the next
\* timeout of the monitor raises it again, alert box included, with the timer
\* of mute_alarm still pending
C28_AlarmWhileSilenced ==
    /\ monitor.restore_timers = 1
    /\ monitor.hr < 60
    /\ monitor.alarm_active
    /\ monitor.alarm_label = "ALERT: BRADYCARDIA"
    /\ monitor.dialogs /= <<>>

\* a step that invokes neither mute_alarm nor reset_display: a timeout of the
\* monitor timer or of a timer of mute_alarm, an alert box closed, monitoring
\* started or stopped, and a load that loads no file
NeitherMuteNorReset ==
    \/ TimerTimeout
    \/ DialogClosed
    \/ RestoreTimeout
    \/ MonitorClicked
    \/ /\ NoDialogOpen
       /\ \E file \in FileChoices :
             file.kind /= "ecg" /\ monitor' = LoadData(monitor, file, FALSE)

\* C29: once alarm_active is set, trigger_alarm does nothing: over every step
\* that invokes neither mute_alarm nor reset_display the alarm stays active,
\* the alarm label keeps its message and no further alert box is shown,
\* whatever the heart rate becomes.
C29_AlarmLatch ==
    [][(monitor.alarm_active /\ NeitherMuteNorReset) =>
          /\ monitor'.alarm_active
          /\ monitor'.alarm_label = monitor.alarm_label
          /\ monitor'.mute_btn
          /\ Len(monitor'.dialogs) <= Len(monitor.dialogs)]_vars

\* C29 witness: the tachycardia alarm, its box closed, still standing two
\* timeouts into the bradycardia section: trigger_alarm("BRADYCARDIA") has
\* been called and has changed nothing
C29_Witness ==
    /\ monitor.alarm_active
    /\ monitor.alarm_label = "ALERT: TACHYCARDIA"
    /\ monitor.ecg_data = SampleLength
    /\ monitor.current_index = 40 * MonitorSamplingRate + 2 * PlotAdvance
    /\ monitor.hr < 60
    /\ NoDialogOpen

\* C29, the heart rate back in the normal range and the alarm still active
\* (reachable)
C29_NormalAgain ==
    /\ monitor.alarm_active
    /\ monitor.alarm_label = "ALERT: TACHYCARDIA"
    /\ monitor.current_index = 30 * MonitorSamplingRate + 2 * PlotAdvance
    /\ ~HrOutOfRange
    /\ NoDialogOpen

\* C30: after any sequence of timeouts, resets and loads the playback position
\* is at least 0 and, when the recording is longer than one display window,
\* below len(ecg_data) - display_points.
C30_PlaybackPosition == IndexInRange

\* C30, the failing run: a recording of 15040 samples is played to 13500, then
\* load_data is answered without a file: the sample data of 15000 samples
\* replaces the recording and the position stays
C30_PositionAfterSampleData ==
    /\ monitor.ecg_data = SampleLength
    /\ monitor.current_index = SampleLength - DisplayPoints
    /\ ~IndexInRange

====
